---- MODULE Spec2Model ----
(***************************************************************************)
(* Verification model of the lepton wallet core:                           *)
(*   - the commitment Merkle tree (src/src/merkletree/index.ts),           *)
(*   - the spending-solution planner                                       *)
(*     (src/src/solutions/complex-solutions.ts),                           *)
(*   - the wallet scanner and balance view (src/unnamed/part_002).         *)
(* Each subsystem has its own specification over the shared variables:     *)
(* SpecTree, SpecPlan, SpecWallet.                                         *)
(***************************************************************************)
EXTENDS Integers, Sequences, FiniteSets, TLC

(***************************************************************************)
(* Bounds of the model.                                                    *)
(***************************************************************************)
\* number of queueLeaves calls in a run
MaxCalls == 2
\* largest starting index of a queued batch
MaxStart == 2
\* largest number of leaves in a queued batch
MaxBatch == 3
\* depth given to the MerkleTree constructor
Depth == 3
\* tree numbers used by the callers
Trees == {0, 1}

Calls == 1..MaxCalls

\* largest value of a UTXO
MaxValue == 2
\* largest number of UTXOs in the first tree balance
MaxSmall == 2
\* largest number of UTXOs in the second tree balance
MaxUTXOs == 9
\* largest value of a requested output, and of a required amount
MaxOutput == 3
\* receivers of the outputs of one request, one output each at most
Addresses == {1, 2}

\* chain ids the wallet has a tree loaded for
Chains == {1, 2}
\* commitments appended over all chains
MaxLeaves == 3
\* leaves a tree takes before the next tree is started
TreeCapacity == 2
\* number of scan calls in a run
MaxScans == 2
\* nullifiers burned on the chains
MaxSpent == 1

Scans == 1..MaxScans
\* leaves in the array of a scanLeaves call made on its own, and such calls
MaxArray == 3
MaxScanLeavesCalls == 2

\* leaves per array when the leaves differ in the master public key they name
MaxAddressed == 2

\* the UTXO counts nextNullifierTarget is asked about: 0..MaxCount
MaxCount == 9

\* the nextNullifierTarget calls of a behaviour
MaxTargetCalls == 2

\* shouldAddMoreUTXOsForSolutionBatch on its own: the UTXOs of the tree, the
\* value each of them has, the amount required
MaxAll == 10
MaxUnit == 1
MaxRequired == 4

\* the viewing private keys of the parties that exchange notes: 1..MaxKeys
MaxKeys == 2

\* findWalletHighestIndex: derivation indices of the commitments, the
\* primaryHeight of the details passed in, commitments per call
MaxIndex == 22

MaxPrimaryHeight == 2

MaxCommitments == 2

(***************************************************************************)
(* Field elements.  A value is a sequence of integers: a leaf is <<v>>,    *)
(* a Poseidon hash of two values is the term <<-1>> \o left \o right, so   *)
(* that the hash is injective.                                             *)
(***************************************************************************)
\* JavaScript's undefined, where the code reads a hole of a sparse array
Undef == <<>>
\* what poseidon([left, undefined]) yields when it yields a value at all
BadHash == <<-2>>

MERKLE_ZERO_VALUE == <<0>>

hashLeftRight(left, right) ==
  IF left = Undef \/ right = Undef THEN BadHash ELSE <<-1>> \o left \o right

RECURSIVE zeroValues(_)
zeroValues(level) ==
  IF level = 0 THEN MERKLE_ZERO_VALUE
  ELSE hashLeftRight(zeroValues(level - 1), zeroValues(level - 1))

\* the leaves carried by the c-th queueLeaves call, n of them
LeavesOf(c, n) == [j \in 1..n |-> <<c * (MaxBatch + 2) + j>>]

Max(S) == CHOOSE x \in S : \A y \in S : y <= x
Min(S) == CHOOSE x \in S : \A y \in S : x <= y

VARIABLES
  \* ---- Merkle tree ----
  nodes,            \* the store: <<tree, level, index>> -> value
  treeLengthCache,  \* tree -> number
  writeCache,       \* tree -> (<<level, index>> -> value)
  writeQueue,       \* tree -> [present, batches: startingIndex -> leaves]
  queueLock,
  poseidonThrows,   \* whether poseidon rejects an undefined input
  hist,             \* the queueLeaves calls made so far (history)
  pc,               \* call -> position of its updateTrees run
  treeLengths,      \* call -> lengths read by the current loop iteration
  ins               \* call -> tree -> state of the insertLeaves it dispatched

VARIABLES
  \* ---- solution planner ----
  treeSortedBalances,  \* the tree balances of the request, by tree number
  excludedUTXOIDs,     \* txids reserved so far
  remainingOutputs,    \* output notes still to be covered
  planCalls            \* the createSpendingSolutionGroupsForOutput calls made (history)

VARIABLES
  \* ---- wallet ----
  commitments,       \* chain -> tree -> the leaves of the chain's Merkle tree
  nullifierIndex,    \* chain -> the nullifiers burned on the chain
  walletDB,          \* <<chain, tree, position>> -> stored TXO record
  walletDetailsDB,   \* chain -> stored treeScannedHeights
  scanLockPerChain,  \* chain -> BOOLEAN
  scan,              \* scan call -> its chain, position and locals
  scanned,           \* the 'scanned' events emitted, by chain id
  balancesResult     \* the value a balances call has just returned

VARIABLES
  \* ---- direct calls ----
  scanLeavesCalls    \* the scanLeaves calls made on their own (history)

VARIABLES
  \* ---- helper functions called on their own ----
  targetCalls,       \* the nextNullifierTarget calls made (history)
  shouldAddCalls,    \* the shouldAddMoreUTXOsForSolutionBatch calls made (history)
  noteCalls,         \* the Note.encrypt / Note.decrypt round trips made (history)
  highestIndexCalls  \* the findWalletHighestIndex calls made (history)

treeVars == <<nodes, treeLengthCache, writeCache, writeQueue, queueLock,
              poseidonThrows, hist, pc, treeLengths, ins>>

planVars == <<treeSortedBalances, excludedUTXOIDs, remainingOutputs, planCalls>>

walletVars == <<commitments, nullifierIndex, walletDB, walletDetailsDB,
                scanLockPerChain, scan, scanned, balancesResult>>

helperVars == <<targetCalls, shouldAddCalls, noteCalls, highestIndexCalls>>

\* what each subsystem leaves alone
notTreeVars == <<planVars, walletVars, scanLeavesCalls, helperVars>>
notPlanVars == <<treeVars, walletVars, scanLeavesCalls, helperVars>>
notWalletVars == <<treeVars, planVars, scanLeavesCalls, helperVars>>
notHelperVars == <<treeVars, planVars, walletVars, scanLeavesCalls>>

vars == <<treeVars, planVars, walletVars, scanLeavesCalls, helperVars>>

(***************************************************************************)
(* Merkle tree: pure helpers                                               *)
(***************************************************************************)
EmptyMap == [k \in {} |-> Undef]

Merge(f, g) == [k \in DOMAIN f \cup DOMAIN g |-> IF k \in DOMAIN g THEN g[k] ELSE f[k]]

Shr(i) == i \div 2

\* a getNode whose fallback is the zero leaf at every level
getNodeZeroLeaf(tree, level, index) ==
  IF <<tree, level, index>> \in DOMAIN nodes
  THEN nodes[<<tree, level, index>>]
  ELSE MERKLE_ZERO_VALUE

getNode(tree, level, index) ==
  IF <<tree, level, index>> \in DOMAIN nodes
  THEN nodes[<<tree, level, index>>]
  ELSE zeroValues(level)

getRoot(tree) == getNode(tree, Depth, 0)

\* countNamespace(getTreeDBPrefix(tree)): every key below the tree's prefix
countNamespace(tree) == Cardinality({k \in DOMAIN nodes : k[1] = tree})

getTreeLength(tree) ==
  IF treeLengthCache[tree] # 0 THEN treeLengthCache[tree] ELSE countNamespace(tree)

CacheGet(cache, level, index) ==
  IF <<level, index>> \in DOMAIN cache THEN cache[<<level, index>>] ELSE Undef

\* a || await getNode(...)
OrNode(cache, tree, level, index) ==
  IF CacheGet(cache, level, index) # Undef
  THEN CacheGet(cache, level, index)
  ELSE getNode(tree, level, index)

\* the indices visited by "for (index; index <= endIndex; index += 2)"
PairIndices(start, end) == {i \in start..end : (i - start) % 2 = 0}

\* the value the pair loop stores at level + 1 for the visited index
PairHash(cache, tree, level, index) ==
  IF index % 2 = 0
  THEN hashLeftRight(OrNode(cache, tree, level, index),
                     OrNode(cache, tree, level, index + 1))
  ELSE hashLeftRight(OrNode(cache, tree, level, index - 1),
                     CacheGet(cache, level, index))

\* the while loop of insertLeaves from `level` on
RECURSIVE HashUp(_, _, _, _, _)
HashUp(cache, tree, level, start, end) ==
  IF level >= Depth THEN cache
  ELSE HashUp(
         Merge(cache, [k \in {<<level + 1, Shr(i)>> : i \in PairIndices(start, end)}
                        |-> PairHash(cache, tree, level,
                              CHOOSE i \in PairIndices(start, end) : Shr(i) = k[2])]),
         tree, level + 1, Shr(start), Shr(end))

\* the write cache after insertLeaves has staged leaves and ancestors
StageLeaves(cache, tree, leaves, startIndex) ==
  HashUp(Merge(cache, [k \in {<<0, startIndex + j - 1>> : j \in 1..Len(leaves)}
                        |-> leaves[k[2] - startIndex + 1]]),
         tree, 0, startIndex, startIndex + Len(leaves))

\* insertLeaves reads this.writeCache[tree][0][..] with no level 0 array when
\* the batch is empty: a TypeError
ThrowsTypeError(leaves) == Len(leaves) = 0

HashedUndefined(cache) == \E k \in DOMAIN cache : cache[k] = BadHash

\* the cache left behind by an insertLeaves that threw at its first bad hash
PartialCache(cache) ==
  LET bad == Min({k[1] : k \in {x \in DOMAIN cache : cache[x] = BadHash}})
      keep == {k \in DOMAIN cache : k[1] <= bad /\ cache[k] # BadHash}
  IN [k \in keep |-> cache[k]]

(***************************************************************************)
(* Merkle tree: queueLeaves, updateTrees, insertLeaves, writeTreeCache     *)
(***************************************************************************)
QueueEmpty == [present |-> FALSE, batches |-> EmptyMap]

NoInsert == [st |-> "none", len |-> 0, by |-> 0]

\* the trees visited by this.writeQueue.forEach (holes are skipped)
QueuedTrees(q) == {t \in Trees : q[t].present}

\* treeLengths of one loop iteration: one entry per tree then in the queue
ReadLengths(q) == [t \in QueuedTrees(q) |-> getTreeLength(t)]

\* getTreeLength stores what it returns
LengthsCached(q) ==
  [t \in Trees |-> IF t \in QueuedTrees(q) THEN getTreeLength(t) ELSE treeLengthCache[t]]

NeverLocked == FALSE

\* "if (this.queueLock) return"
UpdateTreesLocked == queueLock

\* this.writeQueue[tree] = this.writeQueue[tree] || [];
\* this.writeQueue[tree][startingIndex] = leaves
Deposit(q, tree, batch, startingIndex) ==
  [q EXCEPT ![tree] = [present |-> TRUE,
                       batches |-> Merge(q[tree].batches,
                                         [k \in {startingIndex} |-> batch])]]

\* no updateTrees invocation is executing and no insertLeaves is in flight
NoRunExecuting ==
  /\ \A p \in Calls : pc[p] \notin {"lengths", "updates"}
  /\ \A p \in Calls, t \in Trees : ins[p][t].st \notin {"staged", "written"}

TreeInit ==
  /\ nodes = EmptyMap
  /\ treeLengthCache = [t \in Trees |-> 0]
  /\ writeCache = [t \in Trees |-> EmptyMap]
  /\ writeQueue = [t \in Trees |-> QueueEmpty]
  /\ queueLock = FALSE
  /\ poseidonThrows \in BOOLEAN
  /\ hist = <<>>
  /\ pc = [c \in Calls |-> "new"]
  /\ treeLengths = [c \in Calls |-> EmptyMap]
  /\ ins = [c \in Calls |-> [t \in Trees |-> NoInsert]]

\* queueLeaves(tree, leaves, startingIndex) up to the first await of updateTrees
QueueLeaves(tree, startingIndex, n) ==
  /\ Len(hist) < MaxCalls
  /\ LET c == Len(hist) + 1
         q == Deposit(writeQueue, tree, [by |-> c, leaves |-> LeavesOf(c, n)],
                      startingIndex)
     IN /\ hist' = Append(hist, [tree |-> tree, start |-> startingIndex, n |-> n,
                                 deferred |-> startingIndex > getTreeLength(tree),
                                 idle |-> NoRunExecuting])
        /\ writeQueue' = q
        /\ IF UpdateTreesLocked
           THEN /\ pc' = [pc EXCEPT ![c] = "skipped"]
                /\ UNCHANGED <<queueLock, treeLengths, treeLengthCache>>
           ELSE /\ queueLock' = TRUE
                /\ pc' = [pc EXCEPT ![c] = "lengths"]
                /\ treeLengths' = [treeLengths EXCEPT ![c] = ReadLengths(q)]
                /\ treeLengthCache' = LengthsCached(q)
  /\ UNCHANGED <<nodes, writeCache, poseidonThrows, ins>>
  /\ UNCHANGED notTreeVars

\* the queue entries of a tree that survive "delete entries less than tree length"
\* (elementIndex < undefined is false: nothing is deleted for a tree without length)
KeptStarts(lengths, tree) ==
  IF tree \in DOMAIN lengths
  THEN {s \in DOMAIN writeQueue[tree].batches : ~(s < lengths[tree])}
  ELSE DOMAIN writeQueue[tree].batches

DispatchIndexFirst(lengths, tree) ==
  IF KeptStarts(lengths, tree) # {} THEN Min(KeptStarts(lengths, tree)) ELSE -1

\* treeLengths[treeIndex], the queue index looked up and the insert's start index
\* (-1 stands for undefined: the tree had no queue entry when lengths were read)
DispatchIndex(lengths, tree) ==
  IF tree \in DOMAIN lengths THEN lengths[tree] ELSE -1

\* "if (this.writeQueue[treeIndex]?.[treeLengths[treeIndex]])"
Dispatches(lengths, tree) ==
  /\ writeQueue[tree].present
  /\ DispatchIndex(lengths, tree) \in KeptStarts(lengths, tree)

InsertThrows(tree, leaves, startIndex) ==
  \/ ThrowsTypeError(leaves)
  \/ /\ poseidonThrows
     /\ HashedUndefined(StageLeaves(writeCache[tree], tree, leaves, startIndex))

\* the write cache of the tree once insertLeaves waits for writeTreeCache, or threw
InsertCache(tree, leaves, startIndex) ==
  IF ThrowsTypeError(leaves) THEN writeCache[tree]
  ELSE LET staged == StageLeaves(writeCache[tree], tree, leaves, startIndex)
       IN IF poseidonThrows /\ HashedUndefined(staged)
          THEN PartialCache(staged) ELSE staged

\* the loop body after the lengths arrived, up to await Promise.all(updatePromises)
Dispatch(p) ==
  /\ pc[p] = "lengths"
  /\ LET lengths == treeLengths[p]
         batch(t) == writeQueue[t].batches[DispatchIndex(lengths, t)]
     IN /\ writeQueue' =
             [t \in Trees |->
                IF ~writeQueue[t].present \/ KeptStarts(lengths, t) = {}
                THEN QueueEmpty
                ELSE [present |-> TRUE,
                      batches |-> [s \in KeptStarts(lengths, t)
                                     |-> writeQueue[t].batches[s]]]]
        /\ ins' = [ins EXCEPT ![p] =
             [t \in Trees |->
                IF ~Dispatches(lengths, t) THEN NoInsert
                ELSE [st |-> IF InsertThrows(t, batch(t).leaves, DispatchIndex(lengths, t))
                             THEN "failed" ELSE "staged",
                      len |-> 0, by |-> batch(t).by]]]
        /\ writeCache' =
             [t \in Trees |->
                IF Dispatches(lengths, t)
                THEN InsertCache(t, batch(t).leaves, DispatchIndex(lengths, t))
                ELSE writeCache[t]]
  /\ pc' = [pc EXCEPT ![p] = "updates"]
  /\ treeLengths' = [treeLengths EXCEPT ![p] = EmptyMap]
  /\ UNCHANGED <<nodes, treeLengthCache, queueLock, poseidonThrows, hist>>
  /\ UNCHANGED notTreeVars

\* a length that counts the staged leaves only
NewTreeLengthStaged(cache) == Cardinality({x \in DOMAIN cache : x[1] = 0})

\* const newTreeLength = this.writeCache[tree][0].length
NewTreeLength(cache) == Max({k[2] : k \in {x \in DOMAIN cache : x[1] = 0}}) + 1

\* writeTreeCache up to the landing of db.batch
InsertWrite(p, tree) ==
  /\ ins[p][tree].st = "staged"
  /\ LET cache == writeCache[tree]
     IN /\ nodes' = Merge(nodes, [k \in {<<tree, x[1], x[2]>> : x \in DOMAIN cache}
                                   |-> cache[<<k[2], k[3]>>]])
        /\ ins' = [ins EXCEPT ![p][tree].st = "written",
                              ![p][tree].len = NewTreeLength(cache)]
  /\ UNCHANGED <<treeLengthCache, writeCache, writeQueue, queueLock,
                 poseidonThrows, hist, pc, treeLengths>>
  /\ UNCHANGED notTreeVars

\* writeTreeCache after db.batch: the length cache is set, the write cache cleared
InsertFinish(p, tree) ==
  /\ ins[p][tree].st = "written"
  /\ treeLengthCache' = [treeLengthCache EXCEPT ![tree] = ins[p][tree].len]
  /\ writeCache' = [writeCache EXCEPT ![tree] = EmptyMap]
  /\ ins' = [ins EXCEPT ![p][tree].st = "done", ![p][tree].len = 0]
  /\ UNCHANGED <<nodes, writeQueue, queueLock, poseidonThrows, hist, pc, treeLengths>>
  /\ UNCHANGED notTreeVars

\* await Promise.all(updatePromises) resolves: loop again, or release the lock
Join(p) ==
  /\ pc[p] = "updates"
  /\ \A t \in Trees : ins[p][t].st \in {"none", "done"}
  /\ IF \E t \in Trees : ins[p][t].st = "done"
     THEN /\ pc' = [pc EXCEPT ![p] = "lengths"]
          /\ treeLengths' = [treeLengths EXCEPT ![p] = ReadLengths(writeQueue)]
          /\ treeLengthCache' = LengthsCached(writeQueue)
          /\ UNCHANGED queueLock
     ELSE /\ pc' = [pc EXCEPT ![p] = "returned"]
          /\ queueLock' = FALSE
          /\ UNCHANGED <<treeLengths, treeLengthCache>>
  /\ ins' = [ins EXCEPT ![p] = [t \in Trees |-> NoInsert]]
  /\ UNCHANGED <<nodes, writeCache, writeQueue, poseidonThrows, hist>>
  /\ UNCHANGED notTreeVars

\* await Promise.all(updatePromises) rejects: updateTrees throws, the lock stays set
Fail(p) ==
  /\ pc[p] = "updates"
  /\ \E t \in Trees : ins[p][t].st = "failed"
  /\ pc' = [pc EXCEPT ![p] = "thrown"]
  /\ UNCHANGED <<nodes, treeLengthCache, writeCache, writeQueue, queueLock,
                 poseidonThrows, hist, treeLengths, ins>>
  /\ UNCHANGED notTreeVars

TreeNext ==
  \/ \E t \in Trees, s \in 0..MaxStart, n \in 0..MaxBatch : QueueLeaves(t, s, n)
  \/ \E p \in Calls : Dispatch(p)
  \/ \E p \in Calls, t \in Trees : InsertWrite(p, t)
  \/ \E p \in Calls, t \in Trees : InsertFinish(p, t)
  \/ \E p \in Calls : Join(p)
  \/ \E p \in Calls : Fail(p)

(***************************************************************************)
(* Solution planner: nullifier counts, UTXO helpers                        *)
(***************************************************************************)
\* the input counts a circuit exists for, in the order Array.find visits them
VALID_NULLIFIER_COUNTS == <<1, 2, 8>>

isValidNullifierCount(n) ==
  \E i \in DOMAIN VALID_NULLIFIER_COUNTS : VALID_NULLIFIER_COUNTS[i] = n

\* what Array.find returns when no element matches (undefined, falsy)
NoTarget == 0

\* a find that also accepts the count itself: (n) => n >= utxoCount
nextNullifierTargetAtLeast(utxoCount) ==
  LET hits == {i \in DOMAIN VALID_NULLIFIER_COUNTS :
                 VALID_NULLIFIER_COUNTS[i] >= utxoCount}
  IN IF hits = {} THEN NoTarget ELSE VALID_NULLIFIER_COUNTS[Min(hits)]

\* VALID_NULLIFIER_COUNTS.find((n) => n > utxoCount)
nextNullifierTarget(utxoCount) ==
  LET hits == {i \in DOMAIN VALID_NULLIFIER_COUNTS :
                 VALID_NULLIFIER_COUNTS[i] > utxoCount}
  IN IF hits = {} THEN NoTarget ELSE VALID_NULLIFIER_COUNTS[Min(hits)]

\* the element read past the end of an array
UndefTXO == [txid |-> <<>>, value |-> -1]

RECURSIVE calculateTotalSpend(_)
calculateTotalSpend(utxos) ==
  IF utxos = <<>> THEN 0
  ELSE Head(utxos).value + calculateTotalSpend(Tail(utxos))

minBigInt(a, b) == IF a < b THEN a ELSE b

\* where a stable descending sort puts utxo among already sorted ones that
\* preceded it in the input: behind every UTXO that is not smaller
InsertBySize(sorted, utxo) ==
  LET n == Cardinality({i \in DOMAIN sorted : sorted[i].value >= utxo.value})
  IN SubSeq(sorted, 1, n) \o <<utxo>> \o SubSeq(sorted, n + 1, Len(sorted))

RECURSIVE sortUTXOsBySize(_)
sortUTXOsBySize(utxos) ==
  IF utxos = <<>> THEN <<>>
  ELSE InsertBySize(sortUTXOsBySize(SubSeq(utxos, 1, Len(utxos) - 1)),
                    utxos[Len(utxos)])

\* excludedUTXOIDs.includes(txid)
Includes(list, x) == \E i \in DOMAIN list : list[i] = x

\* a push that leaves out the first UTXO of a batch of several
TxidsAfterFirst(utxos) ==
  IF Len(utxos) > 1 THEN Tail([i \in DOMAIN utxos |-> utxos[i].txid])
  ELSE [i \in DOMAIN utxos |-> utxos[i].txid]

\* utxos.map((utxo) => utxo.txid)
Txids(utxos) == [i \in DOMAIN utxos |-> utxos[i].txid]

(***************************************************************************)
(* Solution planner: findNextSolutionBatch                                 *)
(***************************************************************************)
\* a test that asks for more UTXOs for as long as the amount is not covered
shouldAddUntilCovered(spendingUTXOs, allUTXOs, totalRequired) ==
  \/ calculateTotalSpend(spendingUTXOs) < totalRequired
  \/ ~isValidNullifierCount(Len(spendingUTXOs))

shouldAddMoreUTXOsForSolutionBatch(spendingUTXOs, allUTXOs, totalRequired) ==
  LET nullifierCount == Len(spendingUTXOs)
      totalSpend == calculateTotalSpend(spendingUTXOs)
      nullifierTarget == nextNullifierTarget(nullifierCount)
      totalNullifierCount == Len(allUTXOs)
  IN IF totalSpend >= totalRequired THEN ~isValidNullifierCount(nullifierCount)
     ELSE IF nullifierTarget = NoTarget THEN ~isValidNullifierCount(nullifierCount)
     ELSE IF nullifierTarget > totalNullifierCount
          THEN ~isValidNullifierCount(nullifierCount)
     ELSE TRUE

\* the accumulation loop: "while (should add) utxos.push(filteredUTXOs[utxos.length])";
\* a push past the end stores undefined, on which the next total throws
RECURSIVE AccumulateUTXOs(_, _, _)
AccumulateUTXOs(utxos, filteredUTXOs, totalRequired) ==
  IF ~shouldAddMoreUTXOsForSolutionBatch(utxos, filteredUTXOs, totalRequired)
  THEN utxos
  ELSE IF Len(utxos) >= Len(filteredUTXOs) THEN Append(utxos, UndefTXO)
  ELSE AccumulateUTXOs(Append(utxos, filteredUTXOs[Len(utxos) + 1]),
                       filteredUTXOs, totalRequired)

\* the outcomes of findNextSolutionBatch: undefined, a batch, or an exception
NoBatch == [kind |-> "undefined", utxos |-> <<>>]

Raised(error) == [kind |-> error, utxos |-> <<>>]

\* a batch selected greedily: UTXOs in sorted order until the amount is covered
RECURSIVE TakeUntilCovered(_, _, _)
TakeUntilCovered(utxos, filteredUTXOs, totalRequired) ==
  IF calculateTotalSpend(utxos) >= totalRequired \/ Len(utxos) >= Len(filteredUTXOs)
  THEN utxos
  ELSE TakeUntilCovered(Append(utxos, filteredUTXOs[Len(utxos) + 1]),
                        filteredUTXOs, totalRequired)

findNextSolutionBatchGreedy(treeBalance, totalRequired, excluded) ==
  LET filteredUTXOs ==
        SelectSeq(treeBalance.utxos, LAMBDA utxo : ~Includes(excluded, utxo.txid))
  IN IF Len(filteredUTXOs) = 0 THEN NoBatch
     ELSE [kind |-> "batch",
           utxos |-> TakeUntilCovered(<<Head(sortUTXOsBySize(filteredUTXOs))>>,
                                      sortUTXOsBySize(filteredUTXOs), totalRequired)]

findNextSolutionBatch(treeBalance, totalRequired, excluded) ==
  LET filteredUTXOs ==
        SelectSeq(treeBalance.utxos, LAMBDA utxo : ~Includes(excluded, utxo.txid))
  IN IF Len(filteredUTXOs) = 0 THEN NoBatch
     ELSE LET utxos == AccumulateUTXOs(<<>>, sortUTXOsBySize(filteredUTXOs),
                                       totalRequired)
          IN IF Includes(utxos, UndefTXO) THEN Raised("TypeError")
             ELSE IF ~isValidNullifierCount(Len(utxos))
                  THEN Raised("Invalid nullifier count")
             ELSE [kind |-> "batch", utxos |-> utxos]

\* a selection that sorts the UTXOs of the tree balance where they are
TreeBalanceSortedInPlace(treeBalance, excluded) ==
  [treeBalance EXCEPT !.utxos = sortUTXOsBySize(treeBalance.utxos)]

\* the tree balance as findNextSolutionBatch leaves it: treeBalance.utxos.filter
\* makes a new array, and sortUTXOsBySize is given that array
TreeBalanceAfterBatch(treeBalance, excluded) == treeBalance

(***************************************************************************)
(* Solution planner: createSpendingSolutionGroupsForOutput                 *)
(***************************************************************************)
\* output.newNoteWithValue(value)
newNoteWithValue(output, value) == [address |-> output.address, value |-> value]

\* the locals and mutable arguments of one call, as it starts
CallStart(treeBalances, output, remaining, excluded) ==
  [amountLeft |-> output.value, excluded |-> excluded, remaining |-> remaining,
   treeBalances |-> treeBalances,
   spendingSolutionGroups |-> <<>>, outstanding |-> <<>>, raised |-> "none"]

\* an output of the whole value required, whatever the batch holds
SolutionValueRequired(totalSpend, requiredOutputValue) == requiredOutputValue

\* "Solution Value is the smaller of Solution spend value, or required output
\* value"
SolutionValue(totalSpend, requiredOutputValue) ==
  minBigInt(totalSpend, requiredOutputValue)

\* a group that names the first tree whatever tree its UTXOs are from
SolutionGroupOfFirstTree(tree, utxos, solutionOutput) ==
  [spendingTree |-> 0, utxos |-> utxos, outputs |-> <<solutionOutput>>,
   withdrawValue |-> 0]

\* the group pushed onto spendingSolutionGroups
SolutionGroup(tree, utxos, solutionOutput) ==
  [spendingTree |-> tree, utxos |-> utxos, outputs |-> <<solutionOutput>>,
   withdrawValue |-> 0]

\* remainingOutputs.splice(0, 1)
Splice1(list) == IF list = <<>> THEN <<>> ELSE Tail(list)

\* the body of "while (amountLeft > 0)" for one tree, until break or return
RECURSIVE WhileAmountLeft(_, _, _, _)
WhileAmountLeft(st, treeBalances, output, tree) ==
  IF ~(st.amountLeft > 0) THEN st
  ELSE
    LET found == findNextSolutionBatch(st.treeBalances[tree + 1], st.amountLeft,
                                       st.excluded)
    IN IF found.kind = "undefined" THEN st
       ELSE IF found.kind # "batch" THEN [st EXCEPT !.raised = found.kind]
       ELSE
         LET utxos == found.utxos
             totalSpend == calculateTotalSpend(utxos)
             amountLeft == st.amountLeft - totalSpend
             solutionValue == SolutionValue(totalSpend, output.value)
             group == SolutionGroup(tree, utxos,
                                    newNoteWithValue(output, solutionValue))
             spliced == Splice1(st.remaining)
             next ==
               [amountLeft |-> amountLeft,
                excluded |-> st.excluded \o Txids(utxos),
                treeBalances |->
                  [st.treeBalances EXCEPT
                     ![tree + 1] = TreeBalanceAfterBatch(@, st.excluded)],
                remaining |-> IF amountLeft > 0
                              THEN <<newNoteWithValue(output, amountLeft)>> \o spliced
                              ELSE spliced,
                spendingSolutionGroups |-> Append(st.spendingSolutionGroups, group),
                outstanding |-> Append(st.outstanding, st.amountLeft),
                raised |-> "none"]
         IN IF amountLeft > 0
            THEN WhileAmountLeft(next, treeBalances, output, tree)
            ELSE next

\* treeSortedBalances.forEach from tree number `tree` on
RECURSIVE ForEachTree(_, _, _, _)
ForEachTree(st, treeBalances, output, tree) ==
  IF tree >= Len(treeBalances) \/ st.raised # "none" THEN st
  ELSE ForEachTree(WhileAmountLeft(st, treeBalances, output, tree),
                   treeBalances, output, tree + 1)

\* the call's result: its groups, or the error raised, with the arguments as
\* the call left them
createSpendingSolutionGroupsForOutput(treeBalances, output, remaining, excluded) ==
  LET st == ForEachTree(CallStart(treeBalances, output, remaining, excluded),
                        treeBalances,
                        output, 0)
  IN IF st.raised = "none" /\ st.amountLeft > 0
     THEN [st EXCEPT !.raised = "consolidate balances"]
     ELSE st

(***************************************************************************)
(* Solution planner: requests                                              *)
(***************************************************************************)
SeqsUpTo(S, n) == UNION {[1..k -> S] : k \in 0..n}

\* n values that repeat a pattern
Repeat(pattern, n) == [j \in 1..n |-> pattern[((j - 1) % Len(pattern)) + 1]]

\* the tree balance of tree number `tree` holding UTXOs of these values
TreeBalanceOf(tree, values) ==
  [balance |-> calculateTotalSpend([j \in DOMAIN values |-> [value |-> values[j]]]),
   utxos |-> [j \in DOMAIN values |-> [txid |-> <<tree, j>>, value |-> values[j]]]]

\* the same tree balance when its UTXOs come from two transactions by turns:
\* the txid of a TXO is that of the transaction that made the commitment, and
\* one transaction makes several commitments
TreeBalanceOfTwoTxs(tree, values) ==
  [TreeBalanceOf(tree, values) EXCEPT
     !.utxos = [j \in DOMAIN values |->
                  [txid |-> <<tree, ((j - 1) % 2) + 1>>, value |-> values[j]]]]

\* a short first tree of any values, a second tree of up to MaxUTXOs UTXOs whose
\* values alternate, each UTXO from its own transaction or from one of two
TreeBalanceLists ==
  {<<TreeBalanceOf(0, small), TreeBalanceOf(1, Repeat(pattern, n))>> :
     small \in SeqsUpTo(0..MaxValue, MaxSmall),
     pattern \in SeqsUpTo(0..MaxValue, 2) \ {<<>>},
     n \in 0..MaxUTXOs}
  \cup
  {<<TreeBalanceOf(0, small), TreeBalanceOfTwoTxs(1, Repeat(pattern, n))>> :
     small \in SeqsUpTo(0..MaxValue, MaxSmall),
     pattern \in SeqsUpTo(0..MaxValue, 2) \ {<<>>},
     n \in 0..MaxUTXOs}

\* one output note per receiver, for the first k receivers
OutputLists ==
  {[i \in DOMAIN values |-> [address |-> i, value |-> values[i]]] :
     values \in SeqsUpTo(0..MaxOutput, Cardinality(Addresses)) \ {<<>>}}

PlanIdle ==
  /\ treeSortedBalances = <<>>
  /\ excludedUTXOIDs = <<>>
  /\ remainingOutputs = <<>>
  /\ planCalls = <<>>

PlanInit ==
  /\ treeSortedBalances \in TreeBalanceLists
  /\ excludedUTXOIDs = <<>>
  /\ remainingOutputs \in OutputLists
  /\ planCalls = <<>>

\* a request has failed once one of its calls raised
PlanFailed == \E c \in DOMAIN planCalls : planCalls[c].raised # "none"

\* createSpendingSolutionGroupsForOutput(treeSortedBalances, remainingOutputs[0],
\*                                       remainingOutputs, excludedUTXOIDs)
CreateSpendingSolutionGroupsForOutput ==
  /\ remainingOutputs # <<>>
  /\ ~PlanFailed
  /\ Len(planCalls) < Cardinality(Addresses)
  /\ LET output == remainingOutputs[1]
         st == createSpendingSolutionGroupsForOutput(
                 treeSortedBalances, output, remainingOutputs, excludedUTXOIDs)
     IN /\ excludedUTXOIDs' = st.excluded
        /\ remainingOutputs' = st.remaining
        /\ treeSortedBalances' = st.treeBalances
        /\ planCalls' = Append(planCalls,
             [output |-> output, before |-> remainingOutputs,
              excludedBefore |-> excludedUTXOIDs,
              spendingSolutionGroups |-> st.spendingSolutionGroups,
              outstanding |-> st.outstanding, raised |-> st.raised])
  /\ UNCHANGED notPlanVars

PlanNext == CreateSpendingSolutionGroupsForOutput

(***************************************************************************)
(* Wallet: the chain as the wallet reads it                                *)
(***************************************************************************)
\* a commitment of the chain: who can decrypt it (to), whose master public key
\* its note public key is made with (mpk), and the note inside
LeafKinds ==
  {[to |-> "wallet", mpk |-> "wallet", form |-> "ciphertext", token |-> "A",
    value |-> 1],
   [to |-> "wallet", mpk |-> "wallet", form |-> "preimage", token |-> "B",
    value |-> 2],
   [to |-> "other", mpk |-> "other", form |-> "ciphertext", token |-> "A",
    value |-> 1]}

Tokens == {kind.token : kind \in LeafKinds}

\* merkletree[chainID].getTreeLength(tree)
chainTreeLength(chainID, tree) == Len(commitments[chainID][tree])

\* merkletree[chainID].latestTree(): the highest tree that holds a leaf
latestTree(chainID) ==
  Max({0} \cup {t \in Trees : chainTreeLength(chainID, t) > 0})

\* merkletree[chainID].getCommitment(tree, index)
getCommitment(chainID, tree, index) == commitments[chainID][tree][index + 1]

\* keysUtils.poseidon(inputs): a hash of the inputs, each a sequence of integers
RECURSIVE poseidonInputs(_)
poseidonInputs(inputs) ==
  IF inputs = <<>> THEN <<>> ELSE Head(inputs) \o poseidonInputs(Tail(inputs))

poseidon(inputs) == <<-2>> \o poseidonInputs(inputs)

\* this.#viewingKeyPair.privateKey
viewingPrivateKey == <<7>>

\* Wallet.getNullifyingKey()
getNullifyingKey == poseidon(<<viewingPrivateKey>>)

\* Note.getNullifier(nullifyingKey, leafIndex)
getNullifier(nullifyingKey, leafIndex) == poseidon(<<nullifyingKey, <<leafIndex>>>>)

\* the keys a nullifier delivered by the chain may have been made with: the
\* transaction builder is not part of the wallet
SpendKeys == {viewingPrivateKey, getNullifyingKey}

\* the falsy value in the place of a spending txid: false, undefined
NoTxid == <<>>

\* merkletree[chainID].getNullified(nullifier): the spending txid, if any
getNullified(chainID, nullifier) ==
  IF nullifier \in nullifierIndex[chainID] THEN <<"spend", nullifier>> ELSE NoTxid

RECURSIVE TotalLength(_)
TotalLength(S) ==
  IF S = {} THEN 0
  ELSE LET x == CHOOSE y \in S : TRUE
       IN chainTreeLength(x[1], x[2]) + TotalLength(S \ {x})

\* the commitments appended so far, over all chains and trees
LeavesOnChains == TotalLength(Chains \X Trees)

\* no balances call has just returned
NoResult == [chainID |-> 0, balances |-> EmptyMap, txos |-> {}, queried |-> {},
             balancesByTree |-> EmptyMap]

\* the chain event source appends a commitment: to the first tree with room
AppendLeaf(chainID, kind) ==
  /\ LeavesOnChains < MaxLeaves
  /\ \E tree \in Trees :
       /\ chainTreeLength(chainID, tree) < TreeCapacity
       /\ \A t \in Trees : t < tree => chainTreeLength(chainID, t) = TreeCapacity
       /\ commitments' = [commitments EXCEPT ![chainID][tree] =
            Append(@, [txid |-> <<"tx", chainID, tree, Len(@)>>, to |-> kind.to,
                       mpk |-> kind.mpk,
                       form |-> kind.form,
                       token |-> kind.token, value |-> kind.value])]
  /\ balancesResult' = NoResult
  /\ UNCHANGED <<nullifierIndex, walletDB, walletDetailsDB, scanLockPerChain,
                 scan, scanned>>
  /\ UNCHANGED notWalletVars

\* a note of the wallet is spent on the chain: its nullifier is burned
Nullify(chainID, tree, position) ==
  /\ Cardinality(UNION {nullifierIndex[c] : c \in Chains}) < MaxSpent
  /\ position < chainTreeLength(chainID, tree)
  /\ getCommitment(chainID, tree, position).to = "wallet"
  /\ \E key \in SpendKeys :
       /\ getNullifier(key, position) \notin nullifierIndex[chainID]
       /\ nullifierIndex' = [nullifierIndex EXCEPT ![chainID] =
                               @ \cup {getNullifier(key, position)}]
  /\ balancesResult' = NoResult
  /\ UNCHANGED <<commitments, walletDB, walletDetailsDB, scanLockPerChain,
                 scan, scanned>>
  /\ UNCHANGED notWalletVars

(***************************************************************************)
(* Wallet: scan, scanLeaves                                                *)
(***************************************************************************)
NotStarted == [chainID |-> 0, pc |-> "new", treeScannedHeights |-> <<>>,
               tree |-> 0, length |-> 0, listenerOf |-> 0]

\* the scans started so far
Started == {s \in Scans : scan[s].pc # "new"}

ScanNeverLocked(chainID) == FALSE

\* "if (this.scanLockPerChain[chainID])"
ScanLocked(chainID) == scanLockPerChain[chainID]

\* scan(chainID) up to its first await
ScanStart(chainID) ==
  /\ Cardinality(Started) < MaxScans
  /\ LET s == Cardinality(Started) + 1
     IN IF ScanLocked(chainID)
        THEN /\ scan' = [scan EXCEPT ![s] = [NotStarted EXCEPT !.chainID = chainID,
                                                              !.pc = "locked"]]
             /\ UNCHANGED scanLockPerChain
        ELSE /\ scan' = [scan EXCEPT ![s] = [NotStarted EXCEPT !.chainID = chainID,
                                                              !.pc = "details"]]
             /\ scanLockPerChain' = [scanLockPerChain EXCEPT ![chainID] = TRUE]
  /\ balancesResult' = NoResult
  /\ UNCHANGED <<commitments, nullifierIndex, walletDB, walletDetailsDB, scanned>>
  /\ UNCHANGED notWalletVars

\* getWalletDetails(chainID): the stored details, or the defaults
getWalletDetails(chainID) == walletDetailsDB[chainID]

\* "while (treeScannedHeights.length < latestTree + 1) push(0)"
RefreshTrees(heights, latest) ==
  [t \in 1..Max({Len(heights), latest + 1}) |->
     IF t <= Len(heights) THEN heights[t] ELSE 0]

\* the wallet details and the latest tree arrive
ScanDetails(s) ==
  /\ scan[s].pc = "details"
  /\ scan' = [scan EXCEPT ![s].pc = "fetch",
                          ![s].treeScannedHeights =
                            RefreshTrees(getWalletDetails(scan[s].chainID),
                                         latestTree(scan[s].chainID))]
  /\ balancesResult' = NoResult
  /\ UNCHANGED <<commitments, nullifierIndex, walletDB, walletDetailsDB,
                 scanLockPerChain, scanned>>
  /\ UNCHANGED notWalletVars

\* the length of the tree arrives and the leaves from scannedHeight on are fetched
ScanFetch(s) ==
  /\ scan[s].pc = "fetch"
  /\ scan' = [scan EXCEPT ![s].pc = "scanLeaves",
                          ![s].length = chainTreeLength(scan[s].chainID, scan[s].tree)]
  /\ balancesResult' = NoResult
  /\ UNCHANGED <<commitments, nullifierIndex, walletDB, walletDetailsDB,
                 scanLockPerChain, scanned>>
  /\ UNCHANGED notWalletVars

\* an array slot that holds no leaf (never assigned, or deleted)
Hole == [form |-> "undefined"]

\* a fetch that starts at index 0 whatever the scanned height
FetchedLeavesAll(chainID, tree, scannedHeight, length) ==
  [p \in 1..length |-> getCommitment(chainID, tree, p - 1)]

\* the array scan hands to scanLeaves: slots below scannedHeight are never set
FetchedLeaves(chainID, tree, scannedHeight, length) ==
  [p \in 1..length |->
     IF p - 1 < scannedHeight THEN Hole ELSE getCommitment(chainID, tree, p - 1)]

\* "let note: Note | undefined" when no note was assigned
NoNote == <<>>

\* Note.decrypt(leaf.ciphertext.ciphertext, sharedKey) inside its try: AES-GCM
\* rejects a ciphertext made for another key, the catch leaves note undefined;
\* the master public key of the note is the one inside the ciphertext
NoteDecrypt(leaf) ==
  IF leaf.to = "wallet"
  THEN [masterPublicKey |-> leaf.mpk, token |-> leaf.token, value |-> leaf.value]
  ELSE NoNote

\* a deserialize that accepts the encryptedRandom of any leaf
NoteDeserializeAny(leaf) ==
  [masterPublicKey |-> "wallet", token |-> leaf.token, value |-> leaf.value]

\* Note.deserialize(serialized, vpk, addressKeys) inside its try: AES-GCM
\* rejects an encryptedRandom made for another key; the note is made for the
\* recipient passed in, this.addressKeys, whatever the npk of the preimage
NoteDeserialize(leaf) ==
  IF leaf.to = "wallet"
  THEN [masterPublicKey |-> "wallet", token |-> leaf.token, value |-> leaf.value]
  ELSE NoNote

\* "if (note !== undefined)": the note the leaf is recorded with, or none
NoteAddressedToUs(leaf, note) == note

\* the note scanLeaves holds for a leaf after the two branches
NoteOf(leaf) ==
  NoteAddressedToUs(leaf, IF leaf.form = "ciphertext" THEN NoteDecrypt(leaf)
                          ELSE NoteDeserialize(leaf))

\* "'ciphertext' in leaf" with leaf undefined: a TypeError
LeavesHaveHole(leaves) == \E p \in DOMAIN leaves : leaves[p] = Hole

\* a scanLeaves that writes no record
WriteNothing(leaves, tree, chainID) == EmptyMap

\* writeBatch of scanLeaves(leaves, tree, chainID): one put per leaf with a note
WriteBatch(leaves, tree, chainID) ==
  [k \in {<<chainID, tree, p - 1>> : p \in {q \in DOMAIN leaves :
                                              NoteOf(leaves[q]) # NoNote}}
     |-> [spendtxid |-> NoTxid,
          txid |-> leaves[k[3] + 1].txid,
          nullifier |-> getNullifier(viewingPrivateKey, k[3]),
          decrypted |-> NoteOf(leaves[k[3] + 1])]]

\* what scanLeaves returns: writeBatch.length > 0
scanLeavesFound(leaves, tree, chainID) == DOMAIN WriteBatch(leaves, tree, chainID) # {}

\* scanLeaves(leaves, tree, chainID) and the commit of the new scanned height
ScanLeaves(s) ==
  /\ scan[s].pc = "scanLeaves"
  /\ LET chainID == scan[s].chainID
         tree == scan[s].tree
         length == scan[s].length
         scannedHeight == scan[s].treeScannedHeights[tree + 1]
         leaves == FetchedLeaves(chainID, tree, scannedHeight, length)
     IN IF LeavesHaveHole(leaves)
        THEN /\ scan' = [scan EXCEPT ![s].pc = "thrown"]
             /\ UNCHANGED walletDB
        ELSE /\ walletDB' = Merge(walletDB, WriteBatch(leaves, tree, chainID))
             /\ scan' = [scan EXCEPT
                  ![s].treeScannedHeights[tree + 1] =
                     IF length > 0 THEN length - 1 ELSE 0,
                  ![s].tree = tree + 1,
                  ![s].length = 0,
                  ![s].pc = IF tree + 1 < Len(scan[s].treeScannedHeights)
                            THEN "fetch" ELSE "put"]
  /\ balancesResult' = NoResult
  /\ UNCHANGED <<commitments, nullifierIndex, walletDetailsDB, scanLockPerChain,
                 scanned>>
  /\ UNCHANGED notWalletVars

\* db.putEncrypted(getWalletDetailsPath(chainID), ..., walletDetails)
ScanPut(s) ==
  /\ scan[s].pc = "put"
  /\ walletDetailsDB' = [walletDetailsDB EXCEPT ![scan[s].chainID] =
                           scan[s].treeScannedHeights]
  /\ scan' = [scan EXCEPT ![s].pc = "emit"]
  /\ balancesResult' = NoResult
  /\ UNCHANGED <<commitments, nullifierIndex, walletDB, scanLockPerChain, scanned>>
  /\ UNCHANGED notWalletVars

\* no listener of 'scanned' calls scan
NoListener == 0

\* locks with the lock of the chain released ahead of the emit
LockReleasedBeforeEmit(chainID) == [scanLockPerChain EXCEPT ![chainID] = FALSE]

\* scanLockPerChain as the listeners of 'scanned' find it: emit runs them
\* synchronously, and the lock is released on the line after emit
LockDuringEmit(chainID) == scanLockPerChain

\* emit('scanned', { chainID }), during which a listener may call
\* scan(listener) up to its first await, and the release of the lock
ScanEmit(s, listener) ==
  /\ scan[s].pc = "emit"
  /\ scanned' = Append(scanned, scan[s].chainID)
  /\ LET chainID == scan[s].chainID
         locks == LockDuringEmit(chainID)
         s2 == Cardinality(Started) + 1
     IN IF listener = NoListener
        THEN /\ scan' = [scan EXCEPT ![s].pc = "done"]
             /\ scanLockPerChain' = [locks EXCEPT ![chainID] = FALSE]
        ELSE /\ Cardinality(Started) < MaxScans
             /\ IF locks[listener]
                THEN /\ scan' = [scan EXCEPT
                          ![s].pc = "done",
                          ![s2] = [NotStarted EXCEPT !.chainID = listener,
                                                     !.pc = "locked",
                                                     !.listenerOf = s]]
                     /\ scanLockPerChain' = [locks EXCEPT ![chainID] = FALSE]
                ELSE /\ scan' = [scan EXCEPT
                          ![s].pc = "done",
                          ![s2] = [NotStarted EXCEPT !.chainID = listener,
                                                     !.pc = "details",
                                                     !.listenerOf = s]]
                     /\ scanLockPerChain' =
                          [[locks EXCEPT ![listener] = TRUE] EXCEPT ![chainID] = FALSE]
  /\ balancesResult' = NoResult
  /\ UNCHANGED <<commitments, nullifierIndex, walletDB, walletDetailsDB>>
  /\ UNCHANGED notWalletVars

(***************************************************************************)
(* Wallet: TXOs, balances                                                  *)
(***************************************************************************)
\* db.streamNamespace(getWalletDBPrefix(chainID, latestTree)): the keys below
\* the prefix (wallet, id, chainID, tree)
StreamNamespace(chainID, tree) ==
  {k \in DOMAIN walletDB : k[1] = chainID /\ k[2] = tree}

\* every record of the namespace is looked up in the nullifier index
NullifierQueriesAll(chainID) == StreamNamespace(chainID, latestTree(chainID))

\* the records for which TXOs calls getNullified: if (!UTXO.spendtxid)
NullifierQueries(chainID) ==
  {k \in StreamNamespace(chainID, latestTree(chainID)) :
     walletDB[k].spendtxid = NoTxid}

\* the stored record as TXOs leaves it: marked spent when its nullifier is found
CheckedRecord(chainID, record) ==
  IF record.spendtxid = NoTxid /\ getNullified(chainID, record.nullifier) # NoTxid
  THEN [record EXCEPT !.spendtxid = getNullified(chainID, record.nullifier)]
  ELSE record

\* the store after TXOs(chainID)
TXOsStore(chainID) ==
  [k \in DOMAIN walletDB |->
     IF k \in StreamNamespace(chainID, latestTree(chainID))
     THEN CheckedRecord(chainID, walletDB[k]) ELSE walletDB[k]]

\* what TXOs(chainID) returns
TXOs(chainID) ==
  {[tree |-> k[2], position |-> k[3],
    txid |-> walletDB[k].txid,
    spendtxid |-> CheckedRecord(chainID, walletDB[k]).spendtxid,
    note |-> walletDB[k].decrypted] :
     k \in StreamNamespace(chainID, latestTree(chainID))}

RECURSIVE SumValues(_)
SumValues(txos) ==
  IF txos = {} THEN 0
  ELSE LET txo == CHOOSE x \in txos : TRUE
       IN txo.note.value + SumValues(txos \ {txo})

\* what balances(chainID) returns: an entry for every token among the TXOs
balances(chainID) ==
  [token \in {txo.note.token : txo \in TXOs(chainID)} |->
     LET unspent == {txo \in TXOs(chainID) :
                       txo.note.token = token /\ txo.spendtxid = NoTxid}
     IN [balance |-> SumValues(unspent), utxos |-> unspent]]

\* the entry of the tree of the UTXO is replaced by one holding the UTXO alone
AddToTreeOverwriting(entries, utxo) ==
  [tree \in DOMAIN entries \cup {utxo.tree} |->
     IF tree = utxo.tree
     THEN [balance |-> utxo.note.value, utxos |-> {utxo}]
     ELSE entries[tree]]

\* balancesByTree[token] after the forEach body has run for the UTXO: a new
\* entry at index utxo.tree, or the entry there with the UTXO added
AddToTree(entries, utxo) ==
  [tree \in DOMAIN entries \cup {utxo.tree} |->
     IF tree # utxo.tree THEN entries[tree]
     ELSE IF tree \notin DOMAIN entries
          THEN [balance |-> utxo.note.value, utxos |-> {utxo}]
          ELSE [balance |-> entries[tree].balance + utxo.note.value,
                utxos |-> entries[tree].utxos \cup {utxo}]]

\* balances[token].utxos.forEach(...): the sparse array of the entries by tree
RECURSIVE SortByTree(_, _)
SortByTree(utxos, entries) ==
  IF utxos = {} THEN entries
  ELSE LET utxo == CHOOSE x \in utxos : TRUE
       IN SortByTree(utxos \ {utxo}, AddToTree(entries, utxo))

\* what balancesByTree(chainID) returns
balancesByTree(chainID) ==
  [token \in DOMAIN balances(chainID) |->
     SortByTree(balances(chainID)[token].utxos, EmptyMap)]

\* balancesByTree(chainID): the balances call inside it, with the writes of
\* its TXOs call, and the grouping by tree of what it returned
Balances(chainID) ==
  /\ balancesResult' = [chainID |-> chainID, balances |-> balances(chainID),
                        txos |-> TXOs(chainID),
                        queried |-> NullifierQueries(chainID),
                        balancesByTree |-> balancesByTree(chainID)]
  /\ walletDB' = TXOsStore(chainID)
  /\ UNCHANGED <<commitments, nullifierIndex, walletDetailsDB, scanLockPerChain,
                 scan, scanned>>
  /\ UNCHANGED notWalletVars

WalletIdle ==
  /\ commitments = [c \in Chains |-> [t \in Trees |-> <<>>]]
  /\ nullifierIndex = [c \in Chains |-> {}]
  /\ walletDB = EmptyMap
  /\ walletDetailsDB = [c \in Chains |-> <<>>]
  /\ scanLockPerChain = [c \in Chains |-> FALSE]
  /\ scan = [s \in Scans |-> NotStarted]
  /\ scanned = <<>>
  /\ balancesResult = NoResult
  /\ scanLeavesCalls = <<>>

WalletInit == WalletIdle

WalletNext ==
  \/ \E c \in Chains, kind \in LeafKinds : AppendLeaf(c, kind)
  \/ \E c \in Chains, t \in Trees, p \in 0..(TreeCapacity - 1) : Nullify(c, t, p)
  \/ \E c \in Chains : ScanStart(c)
  \/ \E s \in Scans : ScanDetails(s)
  \/ \E s \in Scans : ScanFetch(s)
  \/ \E s \in Scans : ScanLeaves(s)
  \/ \E s \in Scans : ScanPut(s)
  \/ \E s \in Scans, listener \in Chains \cup {NoListener} : ScanEmit(s, listener)
  \/ \E c \in Chains : Balances(c)

(***************************************************************************)
(* Specifications                                                          *)
(***************************************************************************)
\* no helper function has been called
HelpersIdle ==
  /\ targetCalls = <<>>
  /\ shouldAddCalls = <<>>
  /\ noteCalls = <<>>
  /\ highestIndexCalls = <<>>

TreeIdle ==
  /\ nodes = EmptyMap
  /\ treeLengthCache = [t \in Trees |-> 0]
  /\ writeCache = [t \in Trees |-> EmptyMap]
  /\ writeQueue = [t \in Trees |-> QueueEmpty]
  /\ queueLock = FALSE
  /\ poseidonThrows = FALSE
  /\ hist = <<>>
  /\ pc = [c \in Calls |-> "new"]
  /\ treeLengths = [c \in Calls |-> EmptyMap]
  /\ ins = [c \in Calls |-> [t \in Trees |-> NoInsert]]

\* a fresh MerkleTree over an empty store, no planning request
InitTree == TreeInit /\ PlanIdle /\ WalletIdle /\ HelpersIdle

SpecTree == InitTree /\ [][TreeNext]_vars

\* a new MerkleTree instance is constructed over the same store while no run
\* of the old one is executing: the fields start over, the store is kept
Reopen ==
  /\ NoRunExecuting
  /\ treeLengthCache' = [t \in Trees |-> 0]
  /\ writeCache' = [t \in Trees |-> EmptyMap]
  /\ writeQueue' = [t \in Trees |-> QueueEmpty]
  /\ queueLock' = FALSE
  /\ UNCHANGED <<nodes, poseidonThrows, hist, pc, treeLengths, ins>>
  /\ UNCHANGED notTreeVars

TreeReopenNext == TreeNext \/ Reopen

SpecTreeReopen == InitTree /\ [][TreeReopenNext]_vars

\* a planning request, the Merkle tree left alone
InitPlan == PlanInit /\ TreeIdle /\ WalletIdle /\ HelpersIdle

SpecPlan == InitPlan /\ [][PlanNext]_vars

\* a wallet with nothing stored, the trees of its chains empty
InitWallet == WalletInit /\ TreeIdle /\ PlanIdle /\ HelpersIdle

SpecWallet == InitWallet /\ [][WalletNext]_vars

(***************************************************************************)
(* scanLeaves called on its own, over any array of leaves                  *)
(***************************************************************************)
\* what a slot of the array can hold: a leaf of any kind in either form, or
\* nothing
SlotKinds ==
  LeafKinds \cup {[to |-> "other", mpk |-> "other", form |-> "preimage",
                   token |-> "B", value |-> 2],
                  Hole}

\* the arrays of leaves of a tree, each leaf with the txid of its position
LeafArrays(chainID, tree) ==
  {[p \in DOMAIN kinds |->
      IF kinds[p] = Hole THEN Hole
      ELSE [txid |-> <<"tx", chainID, tree, p - 1>>, to |-> kinds[p].to,
            mpk |-> kinds[p].mpk,
            form |-> kinds[p].form, token |-> kinds[p].token,
            value |-> kinds[p].value]] : kinds \in SeqsUpTo(SlotKinds, MaxArray)}

\* await scanLeaves(leaves, tree, chainID)
ScanLeavesCall(leaves, tree, chainID) ==
  /\ Len(scanLeavesCalls) < MaxScanLeavesCalls
  /\ IF LeavesHaveHole(leaves)
     THEN /\ UNCHANGED walletDB
          /\ scanLeavesCalls' = Append(scanLeavesCalls,
               [leaves |-> leaves, tree |-> tree, chainID |-> chainID,
                before |-> walletDB, result |-> "TypeError"])
     ELSE /\ walletDB' = Merge(walletDB, WriteBatch(leaves, tree, chainID))
          /\ scanLeavesCalls' = Append(scanLeavesCalls,
               [leaves |-> leaves, tree |-> tree, chainID |-> chainID,
                before |-> walletDB,
                result |-> IF scanLeavesFound(leaves, tree, chainID)
                           THEN "true" ELSE "false"])
  /\ UNCHANGED <<commitments, nullifierIndex, walletDetailsDB, scanLockPerChain,
                 scan, scanned, balancesResult>>
  /\ UNCHANGED <<treeVars, planVars, helperVars>>

ScanLeavesNext ==
  \E c \in Chains, t \in Trees : \E leaves \in LeafArrays(c, t) :
    ScanLeavesCall(leaves, t, c)

InitScanLeaves == WalletIdle /\ TreeIdle /\ PlanIdle /\ HelpersIdle

SpecScanLeaves == InitScanLeaves /\ [][ScanLeavesNext]_vars

(***************************************************************************)
(* scanLeaves called on leaves that the wallet can decrypt but that name   *)
(* the master public key of another wallet                                 *)
(***************************************************************************)
\* the leaves the viewing key of the wallet decrypts, made for the master
\* public key of the wallet or for another one, and a leaf of another wallet
AddressedKinds ==
  {kind \in LeafKinds : kind.to = "wallet"}
    \cup {[to |-> "wallet", mpk |-> "other", form |-> "ciphertext",
           token |-> "A", value |-> 1],
          [to |-> "wallet", mpk |-> "other", form |-> "preimage",
           token |-> "B", value |-> 2],
          [to |-> "other", mpk |-> "other", form |-> "preimage",
           token |-> "B", value |-> 2]}

\* the arrays of up to MaxAddressed such leaves
AddressedLeafArrays(chainID, tree) ==
  {[p \in DOMAIN kinds |->
      [txid |-> <<"tx", chainID, tree, p - 1>>, to |-> kinds[p].to,
       mpk |-> kinds[p].mpk, form |-> kinds[p].form, token |-> kinds[p].token,
       value |-> kinds[p].value]] : kinds \in SeqsUpTo(AddressedKinds, MaxAddressed)}

ScanLeavesAddressedNext ==
  \E c \in Chains, t \in Trees : \E leaves \in AddressedLeafArrays(c, t) :
    ScanLeavesCall(leaves, t, c)

SpecScanLeavesAddressed == InitScanLeaves /\ [][ScanLeavesAddressedNext]_vars

(***************************************************************************)
(* nextNullifierTarget called on its own                                   *)
(***************************************************************************)
\* nextNullifierTarget(utxoCount)
NextNullifierTargetCall(utxoCount) ==
  /\ Len(targetCalls) < MaxTargetCalls
  /\ targetCalls' = Append(targetCalls,
       [utxoCount |-> utxoCount, target |-> nextNullifierTarget(utxoCount)])
  /\ UNCHANGED <<shouldAddCalls, noteCalls, highestIndexCalls>>
  /\ UNCHANGED notHelperVars

NullifierTargetNext == \E utxoCount \in 0..MaxCount : NextNullifierTargetCall(utxoCount)

InitNullifierTarget == HelpersIdle /\ TreeIdle /\ PlanIdle /\ WalletIdle

SpecNullifierTarget == InitNullifierTarget /\ [][NullifierTargetNext]_vars

(***************************************************************************)
(* shouldAddMoreUTXOsForSolutionBatch called on its own                    *)
(***************************************************************************)
\* the UTXOs of a tree, all of one value, and the first of them as selected
UniformUTXOs(n, value) == [j \in 1..n |-> [txid |-> <<0, j>>, value |-> value]]

\* shouldAddMoreUTXOsForSolutionBatch(spendingUTXOs, allUTXOs, totalRequired)
ShouldAddCall(spendingUTXOs, allUTXOs, totalRequired) ==
  /\ shouldAddCalls = <<>>
  /\ shouldAddCalls' = Append(shouldAddCalls,
       [spendingUTXOs |-> spendingUTXOs, allUTXOs |-> allUTXOs,
        totalRequired |-> totalRequired,
        result |-> shouldAddMoreUTXOsForSolutionBatch(spendingUTXOs, allUTXOs,
                                                      totalRequired)])
  /\ UNCHANGED <<targetCalls, noteCalls, highestIndexCalls>>
  /\ UNCHANGED notHelperVars

ShouldAddNext ==
  \E n \in 0..MaxAll, value \in 0..MaxUnit, totalRequired \in 0..MaxRequired :
    \E k \in 0..n :
      ShouldAddCall(SubSeq(UniformUTXOs(n, value), 1, k), UniformUTXOs(n, value),
                    totalRequired)

InitShouldAdd == HelpersIdle /\ TreeIdle /\ PlanIdle /\ WalletIdle

SpecShouldAdd == InitShouldAdd /\ [][ShouldAddNext]_vars

(***************************************************************************)
(* Note: hex strings, encrypt and decrypt                                  *)
(***************************************************************************)
\* A hex string is a sequence of hex digits 0..15, after the marker HexPrefix
\* when it is 0x-prefixed. A bigint is the sequence of its hex digits with no
\* leading zero, the empty sequence for 0.
HexPrefix == 16

Zeros(n) == [i \in 1..n |-> 0]

Fs(n) == [i \in 1..n |-> 15]

RECURSIVE StripZeros(_)
StripZeros(digits) ==
  IF digits # <<>> /\ Head(digits) = 0 THEN StripZeros(Tail(digits)) ELSE digits

\* hexlify(data): the hex string without its prefix
hexlify(data) ==
  IF data # <<>> /\ Head(data) = HexPrefix THEN Tail(data) ELSE data

\* nToHex(n): the digits of n, in whole bytes
nToHex(n) == IF Len(n) % 2 = 1 THEN <<0>> \o n ELSE n

\* hexToBigInt(hex)
hexToBigInt(hex) == StripZeros(hexlify(hex))

\* formatToByteLength(data, length, prefix): left-padded with zeros to length
\* bytes, the low-order bytes kept when it is longer
formatToByteLength(data, length, prefix) ==
  LET hex == hexlify(data)
      sized == IF Len(hex) >= 2 * length
               THEN SubSeq(hex, Len(hex) - 2 * length + 1, Len(hex))
               ELSE Zeros(2 * length - Len(hex)) \o hex
  IN IF prefix THEN <<HexPrefix>> \o sized ELSE sized

\* String.prototype.substring(start, end) for 0 <= start <= end
substring(string, start, end) ==
  SubSeq(string, start + 1, IF end < Len(string) THEN end ELSE Len(string))

\* encryption.aes.gcm.encrypt(plaintext, key): readable under the key only
gcmEncrypt(plaintext, key) == [key |-> key, data |-> plaintext]

\* what a decryption under another key gives: the tag check throws, no chunk
Throws == <<>>

\* in the place of the note of a Note.decrypt that threw: no field is set
DecryptThrows ==
  [masterPublicKey |-> <<>>, viewingPublicKey |-> <<>>, token |-> <<>>,
   random |-> <<>>, value |-> <<>>]

\* encryption.aes.gcm.decrypt(ciphertext, key)
gcmDecrypt(ciphertext, key) ==
  IF ciphertext.key = key THEN ciphertext.data ELSE Throws

\* getPublicViewingKey(privateKey)
getPublicViewingKey(privateKey) == <<privateKey>>

\* getSharedSymmetricKey(privateKey, publicKey): the same for the two sides
getSharedSymmetricKey(privateKey, publicKey) == {privateKey} \cup {publicKey[1]}

\* new Note(address, random, value, token)
newNote(address, random, value, token) ==
  [masterPublicKey |-> address.masterPublicKey,
   viewingPublicKey |-> address.viewingPublicKey,
   token |-> formatToByteLength(token, 20, FALSE),
   random |-> formatToByteLength(random, 16, FALSE),
   value |-> value]

\* get valueHex()
valueHex(note) == formatToByteLength(nToHex(note.value), 16, FALSE)

\* note.format(prefix)
format(note, prefix) ==
  [masterPublicKey |-> formatToByteLength(nToHex(note.masterPublicKey), 32, prefix),
   token |-> formatToByteLength(note.token, 20, prefix),
   value |-> formatToByteLength(valueHex(note), 16, prefix),
   random |-> formatToByteLength(note.random, 16, prefix)]

\* note.encrypt(sharedKey)
encrypt(note, sharedKey) ==
  LET f == format(note, FALSE)
  IN gcmEncrypt(<<f.masterPublicKey, f.token, f.random \o f.value>>, sharedKey)

\* a decrypt that reads the value from the whole third chunk
decryptWholeChunk(encryptedNote, sharedKey) ==
  IF gcmDecrypt(encryptedNote, sharedKey) = Throws THEN DecryptThrows
  ELSE LET decryptedValues == [i \in 1..3 |->
                                 hexlify(gcmDecrypt(encryptedNote, sharedKey)[i])]
       IN newNote([masterPublicKey |-> hexToBigInt(decryptedValues[1]),
                   viewingPublicKey |-> <<>>],
                  substring(decryptedValues[3], 0, 32),
                  hexToBigInt(decryptedValues[3]),
                  decryptedValues[2])

\* Note.decrypt(encryptedNote, sharedKey)
decrypt(encryptedNote, sharedKey) ==
  IF gcmDecrypt(encryptedNote, sharedKey) = Throws THEN DecryptThrows
  ELSE LET decryptedValues == [i \in 1..3 |->
                                 hexlify(gcmDecrypt(encryptedNote, sharedKey)[i])]
       IN newNote([masterPublicKey |-> hexToBigInt(decryptedValues[1]),
                   viewingPublicKey |-> <<>>],
                  substring(decryptedValues[3], 0, 32),
                  hexToBigInt(substring(decryptedValues[3], 32, 96)),
                  decryptedValues[2])

\* the arguments notes are made from
MasterPublicKeys == {<<1>>, <<3>> \o Fs(63)}

NoteRandoms == {<<1>>, Zeros(2) \o Fs(30), <<HexPrefix>> \o Fs(32)}

NoteTokens == {<<1, 2>>, <<HexPrefix, 10>> \o Zeros(38) \o <<11>>}

\* 0, 1, 2^124, 2^128 - 1 and 2^128
NoteValues == {<<>>, <<1>>, <<1>> \o Zeros(31), Fs(32), <<1>> \o Zeros(32)}

Keys == 1..MaxKeys

\* a sender makes a note for a receiver and encrypts it under the key shared
\* with the receiver; a reader decrypts it under the key it shares with the
\* sender
EncryptDecrypt(note, sender, receiver, reader) ==
  /\ noteCalls = <<>>
  /\ LET k1 == getSharedSymmetricKey(sender, getPublicViewingKey(receiver))
         k2 == getSharedSymmetricKey(reader, getPublicViewingKey(sender))
     IN noteCalls' = Append(noteCalls,
          [note |-> note, key |-> k1, readerKey |-> k2,
           encrypted |-> encrypt(note, k1),
           decrypted |-> decrypt(encrypt(note, k1), k2)])
  /\ UNCHANGED <<targetCalls, shouldAddCalls, highestIndexCalls>>
  /\ UNCHANGED notHelperVars

NoteNext ==
  \E masterPublicKey \in MasterPublicKeys, random \in NoteRandoms,
     value \in NoteValues, token \in NoteTokens,
     sender \in Keys, receiver \in Keys, reader \in Keys :
    EncryptDecrypt(newNote([masterPublicKey |-> masterPublicKey,
                            viewingPublicKey |-> getPublicViewingKey(receiver)],
                           random, value, token),
                   sender, receiver, reader)

InitNote == HelpersIdle /\ TreeIdle /\ PlanIdle /\ WalletIdle

SpecNote == InitNote /\ [][NoteNext]_vars

(***************************************************************************)
(* Derivation-index wallet: findWalletHighestIndex called on its own       *)
(* (src/src/wallet/index.ts)                                               *)
(***************************************************************************)
\* how far past primaryHeight the loop of findWalletHighestIndex runs
IndexWindow == 20

\* the keypairs the commitments of a call may be addressed to
KeyIndices == [index : 0..MaxIndex, change : BOOLEAN]

\* scanIndex(index, change, commitments): for every commitment, whether its
\* note is addressed to the keypair at (index, change)
scanIndex(index, change, userCommitments) ==
  [i \in 1..Len(userCommitments) |->
     userCommitments[i] = [index |-> index, change |-> change]]

\* for (let index = 0; index < updatedWalletDetails.primaryHeight + 20; ...)
\* from `index` on; scanned lists the scanIndex calls made
RECURSIVE ForIndex(_, _, _, _)
ForIndex(index, updatedWalletDetails, walletDetails, userCommitments) ==
  IF ~(index < updatedWalletDetails.details.primaryHeight + IndexWindow)
  THEN updatedWalletDetails
  ELSE LET commitmentsInIndices ==
             scanIndex(index, TRUE, userCommitments) \o scanIndex(index, FALSE, userCommitments)
           hasAsset == Includes(commitmentsInIndices, TRUE)
       IN ForIndex(index + 1,
            [details |->
               IF hasAsset /\ index > walletDetails.primaryHeight
               THEN [updatedWalletDetails.details EXCEPT !.primaryHeight = index]
               ELSE updatedWalletDetails.details,
             scanned |-> updatedWalletDetails.scanned
                           \o <<<<index, TRUE>>, <<index, FALSE>>>>],
            walletDetails, userCommitments)

\* findWalletHighestIndex(walletDetails, commitments): the copy returned and
\* the scanIndex calls made
findWalletHighestIndex(walletDetails, userCommitments) ==
  ForIndex(0, [details |-> walletDetails, scanned |-> <<>>], walletDetails,
           userCommitments)

\* the wallet details a call is given
WalletDetailsInputs ==
  [treeScannedHeights : {<<1>>}, primaryHeight : 0..MaxPrimaryHeight,
   changeHeight : {1}]

FindWalletHighestIndexCall(walletDetails, userCommitments) ==
  /\ highestIndexCalls = <<>>
  /\ LET found == findWalletHighestIndex(walletDetails, userCommitments)
     IN highestIndexCalls' = Append(highestIndexCalls,
          [walletDetails |-> walletDetails, commitments |-> userCommitments,
           returned |-> found.details, scanned |-> found.scanned,
           walletDetailsAfter |-> walletDetails])
  /\ UNCHANGED <<targetCalls, shouldAddCalls, noteCalls>>
  /\ UNCHANGED notHelperVars

HighestIndexNext ==
  \E walletDetails \in WalletDetailsInputs,
     userCommitments \in SeqsUpTo(KeyIndices, MaxCommitments) :
    FindWalletHighestIndexCall(walletDetails, userCommitments)

InitHighestIndex == HelpersIdle /\ TreeIdle /\ PlanIdle /\ WalletIdle

SpecHighestIndex == InitHighestIndex /\ [][HighestIndexNext]_vars

(***************************************************************************)
(* Claims about the Merkle tree (checked under SpecTree)                   *)
(***************************************************************************)
\* the level 0 positions persisted for a tree
LeafPositions(tree) == {k[3] : k \in {x \in DOMAIN nodes : x[1] = tree /\ x[2] = 0}}

\* the reference Merkle tree over a leaf sequence padded with zero leaves
RECURSIVE ReferenceNode(_, _, _)
ReferenceNode(leaves, level, index) ==
  IF level = 0
  THEN (IF index < Len(leaves) THEN leaves[index + 1] ELSE MERKLE_ZERO_VALUE)
  ELSE <<-1>> \o ReferenceNode(leaves, level - 1, 2 * index)
              \o ReferenceNode(leaves, level - 1, 2 * index + 1)

\* the leaves delivered to a tree by the first c calls, in call order
RECURSIVE Delivered(_, _)
Delivered(tree, c) ==
  IF c = 0 THEN <<>>
  ELSE Delivered(tree, c - 1)
       \o (IF hist[c].tree = tree THEN LeavesOf(c, hist[c].n) ELSE <<>>)

\* every call so far was made while updateTrees was idle and appended a
\* non-empty batch right at the end of what its tree had been given before
ContiguousDelivery ==
  \A c \in 1..Len(hist) :
    /\ hist[c].idle
    /\ hist[c].n >= 1
    /\ hist[c].start = Len(Delivered(hist[c].tree, c - 1))

NodesAreHashes(tree) ==
  \A k \in DOMAIN nodes :
    (k[1] = tree /\ k[2] >= 1) =>
      nodes[k] = <<-1>> \o getNode(tree, k[2] - 1, 2 * k[3])
                        \o getNode(tree, k[2] - 1, 2 * k[3] + 1)

\* C1: after contiguous batches of any size and any even or odd starting index,
\* once updateTrees is idle every persisted node above the leaves is the hash of
\* its two children (zero value for an absent child) and the root is the
\* reference root of the delivered leaves.
C1_RootIsReferenceRoot ==
  (ContiguousDelivery /\ NoRunExecuting) =>
    \A t \in Trees :
      /\ NodesAreHashes(t)
      /\ getRoot(t) = ReferenceNode(Delivered(t, Len(hist)), Depth, 0)

\* the persisted leaves of a tree occupy exactly positions 0..n-1
LeavesContiguous ==
  \A t \in Trees : LeafPositions(t) = 0..(Cardinality(LeafPositions(t)) - 1)

LeavesFrozen ==
  \A k \in DOMAIN nodes :
    k[2] = 0 => (k \in DOMAIN nodes' /\ nodes'[k] = nodes[k])

StaleBatchesLeaveStoreAlone ==
  \A t \in Trees : \A s \in DOMAIN writeQueue[t].batches :
    (s < Cardinality(LeafPositions(t)) /\ s \notin DOMAIN writeQueue'[t].batches)
      => nodes' = nodes

\* an insertLeaves is only ever started for a batch that begins right after the
\* persisted leaves of its tree
OnlyCurrentBatchDispatched ==
  \A p \in Calls, t \in Trees :
    ins[p][t].st \in {"staged", "failed"}
      => hist[ins[p][t].by].start = Cardinality(LeafPositions(t))

C8_OneUpdateAtATime ==
  /\ Cardinality({p \in Calls : pc[p] \in {"lengths", "updates"}}) <= 1
  /\ \A t \in Trees :
       Cardinality({p \in Calls : ins[p][t].st \in {"staged", "written"}}) <= 1
  /\ \A p \in Calls :
       pc[p] = "skipped" =>
         (treeLengths[p] = EmptyMap /\ \A t \in Trees : ins[p][t] = NoInsert)

\* a call on the same tree was turned away by the lock while an insert of the
\* running loop was in flight
C8_Witness ==
  \E p, q \in Calls, t \in Trees :
    /\ pc[q] = "skipped" /\ hist[q].tree = t
    /\ pc[p] = "updates" /\ ins[p][t].st = "staged"

\* C9: a batch deposited while another updateTrees run holds the lock is
\* inserted by that run before it releases the lock whenever the batch starts at
\* the tree's length: once the lock is free, no queued batch starts at the
\* length of its tree.
C9_NoBatchLeftAtTreeLength ==
  ~queueLock =>
    \A t \in Trees : getTreeLength(t) \notin DOMAIN writeQueue[t].batches

\* a batch queued beyond the tree's length stays in the queue
DeferredStays ==
  \A t \in Trees : \A s \in DOMAIN writeQueue[t].batches :
    s > getTreeLength(t) => s \in DOMAIN writeQueue'[t].batches

DeferredInserted ==
  /\ ~queueLock =>
       \A t \in Trees : \A s \in DOMAIN writeQueue[t].batches :
         hist[writeQueue[t].batches[s].by].deferred => s # getTreeLength(t)
  /\ \A p \in Calls, t \in Trees :
       ins[p][t].st = "failed" => ~hist[ins[p][t].by].deferred

\* C10: a batch queued beyond the tree's length stays in the queue while the
\* tree is shorter than its starting index, is not left behind at the tree's
\* length when the lock is released, and its insertion raises no error.
C10_DeferredBatchInserted ==
  /\ []DeferredInserted
  /\ [][DeferredStays]_vars

(***************************************************************************)
(* Claims about the solution planner (checked under SpecPlan)              *)
(***************************************************************************)
\* what findNextSolutionBatch returns in the current state for the tree balance
\* at this place of the list and this required amount
NextBatch(tree, totalRequired) ==
  findNextSolutionBatch(treeSortedBalances[tree], totalRequired, excludedUTXOIDs)

\* every group returned by the calls made so far
EmittedGroups ==
  UNION {{planCalls[c].spendingSolutionGroups[g] :
            g \in DOMAIN planCalls[c].spendingSolutionGroups} :
         c \in {d \in DOMAIN planCalls : planCalls[d].raised = "none"}}

\* C3: whenever findNextSolutionBatch returns a batch it holds 1, 2 or 8 UTXOs,
\* and so does every group emitted by createSpendingSolutionGroupsForOutput.
C3_BatchSizeValid ==
  /\ \A tree \in DOMAIN treeSortedBalances, totalRequired \in 0..MaxOutput :
       NextBatch(tree, totalRequired).kind = "batch"
         => Len(NextBatch(tree, totalRequired).utxos) \in {1, 2, 8}
  /\ \A group \in EmittedGroups : Len(group.utxos) \in {1, 2, 8}

\* groups of 2 and of 8 UTXOs have been returned, and a batch of 1 can still
\* be found
C3_Witness ==
  /\ \E group \in EmittedGroups : Len(group.utxos) = 8
  /\ \E group \in EmittedGroups : Len(group.utxos) = 2
  /\ \E tree \in DOMAIN treeSortedBalances, totalRequired \in 0..MaxOutput :
       /\ NextBatch(tree, totalRequired).kind = "batch"
       /\ Len(NextBatch(tree, totalRequired).utxos) = 1

AllZeroValue(utxos) == \A i \in DOMAIN utxos : utxos[i].value = 0

\* C4: a batch or group never consists of zero-value UTXOs only: when only
\* zero-value UTXOs of a tree are left, findNextSolutionBatch returns no batch
\* and no group is emitted for them.
C4_NoZeroValueBatch ==
  /\ \A tree \in DOMAIN treeSortedBalances, totalRequired \in 0..MaxOutput :
       NextBatch(tree, totalRequired).kind = "batch"
         => ~AllZeroValue(NextBatch(tree, totalRequired).utxos)
  /\ \A group \in EmittedGroups : ~AllZeroValue(group.utxos)

RECURSIVE OutputTotal(_)
OutputTotal(groups) ==
  IF groups = <<>> THEN 0
  ELSE Head(groups).outputs[1].value + OutputTotal(Tail(groups))

\* C5: when a call for an output of value v succeeds, the output notes of its
\* groups sum to v, each being the smaller of the group's total UTXO value and
\* the amount of the output outstanding before the group.
C5_OutputsSumToValue ==
  \A c \in DOMAIN planCalls :
    planCalls[c].raised = "none" =>
      /\ OutputTotal(planCalls[c].spendingSolutionGroups) = planCalls[c].output.value
      /\ \A g \in DOMAIN planCalls[c].spendingSolutionGroups :
           planCalls[c].spendingSolutionGroups[g].outputs[1].value =
             minBigInt(calculateTotalSpend(planCalls[c].spendingSolutionGroups[g].utxos),
                       planCalls[c].outstanding[g])

(***************************************************************************)
(* Claims about the wallet (checked under SpecWallet)                      *)
(***************************************************************************)
\* the stored TXO records of a chain and token, in any tree, whose nullifier
\* is not in the nullifier index
UnspentRecords(chainID, token) ==
  {k \in DOMAIN walletDB :
     /\ k[1] = chainID
     /\ walletDB[k].decrypted.token = token
     /\ walletDB[k].nullifier \notin nullifierIndex[chainID]}

RECURSIVE RecordTotal(_)
RecordTotal(keys) ==
  IF keys = {} THEN 0
  ELSE LET k == CHOOSE x \in keys : TRUE
       IN walletDB[k].decrypted.value + RecordTotal(keys \ {k})

\* the entry of a token in the value balances has just returned
ReturnedEntry(token) ==
  IF token \in DOMAIN balancesResult.balances
  THEN balancesResult.balances[token]
  ELSE [balance |-> 0, utxos |-> {}]

\* C6: for every token, what balances(chain) returns is the sum, and the set,
\* of the stored TXO records of the chain in every tree whose nullifier is not
\* in the nullifier index.
C6_BalancesCoverAllTrees ==
  balancesResult.chainID \in Chains =>
    \A token \in Tokens :
      /\ ReturnedEntry(token).balance =
           RecordTotal(UnspentRecords(balancesResult.chainID, token))
      /\ {<<balancesResult.chainID, txo.tree, txo.position>> :
            txo \in ReturnedEntry(token).utxos} =
           UnspentRecords(balancesResult.chainID, token)

\* the scans that hold, or died holding, the lock of a chain
Holders(chainID) ==
  {s \in Scans : scan[s].chainID = chainID
                  /\ scan[s].pc \in {"details", "fetch", "scanLeaves", "put",
                                      "emit", "thrown"}}

ScanLockExclusive ==
  \A c \in Chains :
    /\ Cardinality(Holders(c)) <= 1
    /\ Holders(c) # {} => scanLockPerChain[c]

\* a scan call made while the lock of its chain is set returns at once, reading
\* and writing nothing; one made while it is free proceeds, whatever the locks
\* of the other chains. A call made by a listener of 'scanned' shares its step
\* with the emit and the release of the lock by the emitting scan.
ScanCallRespectsLock ==
  \A s \in Scans :
    (scan[s].pc = "new" /\ scan'[s].pc # "new") =>
      IF scanLockPerChain[scan'[s].chainID]
      THEN /\ scan'[s] = [NotStarted EXCEPT !.chainID = scan'[s].chainID,
                                            !.pc = "locked",
                                            !.listenerOf = scan'[s].listenerOf]
           /\ UNCHANGED <<walletDB, walletDetailsDB>>
           /\ IF scan'[s].listenerOf = 0
              THEN UNCHANGED <<scanned, scanLockPerChain>>
              ELSE scanLockPerChain' =
                     [scanLockPerChain EXCEPT
                        ![scan[scan'[s].listenerOf].chainID] = FALSE]
      ELSE /\ scan'[s].pc = "details"
           /\ scanLockPerChain'[scan'[s].chainID]

LockedScanStaysReturned ==
  \A s \in Scans : scan[s].pc = "locked" => scan'[s] = scan[s]

\* C7: while a scan holds the lock of a chain, another scan call on that chain
\* returns without reading wallet details, scanning leaves, writing or
\* emitting; a scan on another chain is not blocked.
C7_ScanLockPerChain ==
  /\ []ScanLockExclusive
  /\ [][ScanCallRespectsLock /\ LockedScanStaysReturned]_vars

\* a scan that found leaves is writing its details while a second call on the
\* same chain has returned as locked
C7_Witness ==
  \E p, q \in Scans :
    /\ scan[p].pc = "put" /\ scan[q].pc = "locked"
    /\ scan[p].chainID = scan[q].chainID
    /\ \E k \in DOMAIN walletDB : k[1] = scan[p].chainID

(***************************************************************************)
(* Claims about the stored TXO records (checked under SpecWallet)          *)
(***************************************************************************)
\* a record marked spent keeps its spending txid through the step
SpendtxidKept ==
  \A k \in DOMAIN walletDB :
    walletDB[k].spendtxid # NoTxid =>
      (k \in DOMAIN walletDB' /\ walletDB'[k].spendtxid = walletDB[k].spendtxid)

\* a record is marked spent only when its nullifier is in the nullifier index,
\* and the TXOs balances reports as unspent are those whose nullifier is not
SpentIffNullified ==
  /\ \A k \in DOMAIN walletDB :
       walletDB[k].spendtxid # NoTxid => walletDB[k].nullifier \in nullifierIndex[k[1]]
  /\ balancesResult.chainID \in Chains =>
       \A token \in DOMAIN balancesResult.balances :
         {<<balancesResult.chainID, txo.tree, txo.position>> :
            txo \in balancesResult.balances[token].utxos}
           = {k \in StreamNamespace(balancesResult.chainID,
                                    latestTree(balancesResult.chainID)) :
                /\ walletDB[k].decrypted.token = token
                /\ walletDB[k].nullifier \notin nullifierIndex[k[1]]}

\* C11: once a stored TXO record has its spendtxid set it keeps it through
\* every later scan, scanLeaves, TXOs and balances call, and a TXO is reported
\* spent exactly when its nullifier is in the nullifier index.
C11_SpendtxidPersistent ==
  /\ []SpentIffNullified
  /\ [][SpendtxidKept]_vars

\* the step is a scanLeaves call that ran to its end
ScanLeavesRan ==
  \E s \in Scans : scan[s].pc = "scanLeaves" /\ scan'[s].pc \in {"fetch", "put"}

\* the records scanLeaves found in the store are there afterwards, unchanged
RescanKeepsRecords ==
  \A k \in DOMAIN walletDB : k \in DOMAIN walletDB' /\ walletDB'[k] = walletDB[k]

\* C12: running scanLeaves again over a leaf that already has a record leaves
\* one record at its key, the same as before the re-scan (same txid,
\* nullifier, note and spend status).
C12_RescanIdempotent ==
  [][ScanLeavesRan => RescanKeepsRecords]_vars

(***************************************************************************)
(* Claims about scanLeaves (checked under SpecScanLeaves)                  *)
(***************************************************************************)
\* the positions of an array whose leaf is addressed to the wallet
Decryptable(leaves) == {p - 1 : p \in {q \in DOMAIN leaves : leaves[q].to = "wallet"}}

\* the keys whose record differs between two stores
Written(before, after) ==
  {k \in DOMAIN after : k \notin DOMAIN before \/ after[k] # before[k]}

\* C13: scanLeaves does not fail on a leaf it cannot decrypt: for an array
\* mixing the wallet's leaves with foreign ones, in ciphertext or preimage
\* form, it stores a record for exactly the leaves that decrypt and returns
\* true iff it wrote at least one record.
C13_ForeignLeavesSkipped ==
  \A c \in DOMAIN scanLeavesCalls :
    LET call == scanLeavesCalls[c]
        after == IF c < Len(scanLeavesCalls) THEN scanLeavesCalls[c + 1].before
                 ELSE walletDB
    IN ~LeavesHaveHole(call.leaves) =>
         /\ call.result # "TypeError"
         /\ \A p \in Decryptable(call.leaves) :
              /\ <<call.chainID, call.tree, p>> \in DOMAIN after
              /\ after[<<call.chainID, call.tree, p>>].txid = call.leaves[p + 1].txid
              /\ after[<<call.chainID, call.tree, p>>].decrypted.value
                   = call.leaves[p + 1].value
         /\ Written(call.before, after)
              \subseteq {<<call.chainID, call.tree, p>> : p \in Decryptable(call.leaves)}
         /\ DOMAIN call.before \subseteq DOMAIN after
         /\ (call.result = "true") = (Decryptable(call.leaves) # {})

\* a call over the wallet's leaf between a foreign ciphertext and a foreign
\* preimage returned true and stored the one record
C13_Witness ==
  \E c \in DOMAIN scanLeavesCalls :
    LET call == scanLeavesCalls[c]
    IN /\ Len(call.leaves) = 3
       /\ ~LeavesHaveHole(call.leaves)
       /\ call.leaves[1].to = "other" /\ call.leaves[1].form = "ciphertext"
       /\ call.leaves[2].to = "wallet"
       /\ call.leaves[3].to = "other" /\ call.leaves[3].form = "preimage"
       /\ call.result = "true"
       /\ c = Len(scanLeavesCalls)
       /\ <<call.chainID, call.tree, 1>> \in DOMAIN walletDB
       /\ <<call.chainID, call.tree, 0>> \notin DOMAIN walletDB

(***************************************************************************)
(* Claims about scan progress (checked under SpecWallet)                   *)
(***************************************************************************)
\* the wallet's leaves of a tree below a length all have their record in the
\* store of the next state
RecordsBelow(chainID, tree, length) ==
  \A p \in 0..(length - 1) :
    getCommitment(chainID, tree, p).to = "wallet"
      => <<chainID, tree, p>> \in DOMAIN walletDB'

\* C14: a scan that read length n for a tree gets through that tree, from
\* whatever stored height it starts, and leaves a TXO record for every leaf of
\* the wallet below n; leaves appended after an earlier scan are picked up by
\* the next one.
C14_ScanFindsEveryLeaf ==
  [][\A s \in Scans :
       scan[s].pc = "scanLeaves" =>
         /\ scan'[s].pc # "thrown"
         /\ scan'[s].pc \in {"fetch", "put"} =>
              RecordsBelow(scan[s].chainID, scan[s].tree, scan[s].length)]_vars

\* the persisted scanned heights of every chain: no entry decreases and the
\* array does not shrink in the step
HeightsNeverDecrease ==
  \A c \in Chains :
    /\ Len(walletDetailsDB'[c]) >= Len(walletDetailsDB[c])
    /\ \A t \in DOMAIN walletDetailsDB[c] :
         walletDetailsDB'[c][t] >= walletDetailsDB[c][t]

\* the array a scan hands to scanLeaves holds leaves at indices >= the scanned
\* height it started from, and nothing else
FetchedFromHeight ==
  \A s \in Scans :
    scan[s].pc = "scanLeaves" =>
      LET scannedHeight == scan[s].treeScannedHeights[scan[s].tree + 1]
          leaves == FetchedLeaves(scan[s].chainID, scan[s].tree, scannedHeight,
                                  scan[s].length)
      IN \A p \in DOMAIN leaves : leaves[p] # Hole => p - 1 >= scannedHeight

\* C15: the persisted treeScannedHeights[t] of every tree never decreases, the
\* array never shrinks, and a scan starting from height h fetches and examines
\* only leaves at indices >= h.
C15_ScannedHeightsMonotonic ==
  /\ []FetchedFromHeight
  /\ [][HeightsNeverDecrease]_vars

\* a scan that started from the persisted height 1 of tree 0 has fetched the
\* leaves of the tree from index 1 on
C15_Witness ==
  \E s \in Scans :
    /\ scan[s].pc = "scanLeaves" /\ scan[s].tree = 0
    /\ walletDetailsDB[scan[s].chainID] # <<>>
    /\ walletDetailsDB[scan[s].chainID][1] = 1
    /\ scan[s].treeScannedHeights[1] = 1
    /\ scan[s].length > 1

\* C16: in every reachable state, a scan interrupted at an await included, the
\* persisted treeScannedHeights[t] is within the leaves of tree t that
\* scanLeaves has been through: every leaf of the wallet at an index below the
\* persisted height has its TXO record in the store.
C16_HeightWithinWrittenLeaves ==
  \A c \in Chains : \A t \in DOMAIN walletDetailsDB[c] :
    /\ walletDetailsDB[c][t] <= chainTreeLength(c, t - 1)
    /\ \A p \in 0..(walletDetailsDB[c][t] - 1) :
         getCommitment(c, t - 1, p).to = "wallet"
           => <<c, t - 1, p>> \in DOMAIN walletDB

\* a height of 1 is persisted for a tree whose leaf 0 is the wallet's and has
\* its record, and a later scan of the chain stopped in the middle
C16_Witness ==
  \E c \in Chains :
    /\ walletDetailsDB[c] # <<>>
    /\ walletDetailsDB[c][1] = 1
    /\ getCommitment(c, 0, 0).to = "wallet"
    /\ <<c, 0, 0>> \in DOMAIN walletDB
    /\ \E s \in Scans : scan[s].chainID = c /\ scan[s].pc = "thrown"

(***************************************************************************)
(* Claims about tree lengths and zero values (checked under SpecTreeReopen)*)
(***************************************************************************)
NoInsertInProgress ==
  \A p \in Calls, t \in Trees : ins[p][t].st \notin {"staged", "written"}

\* C17: whenever no insert is in progress, getTreeLength(tree) is the number
\* of leaves persisted at level 0 of the tree, with the length cache filled by
\* an insertLeaves or cold (a new instance over a store that holds the tree).
C17_TreeLengthIsLeafCount ==
  NoInsertInProgress =>
    \A t \in Trees : getTreeLength(t) = Cardinality(LeafPositions(t))

\* C18: for a node that is not persisted getNode(tree, level, index) returns
\* zeroValues[level], where zeroValues[0] = MERKLE_ZERO_VALUE and
\* zeroValues[L] = hashLeftRight(zeroValues[L-1], zeroValues[L-1]); the root
\* of an empty tree is the Depth-fold self-hash of MERKLE_ZERO_VALUE.
C18_AbsentNodeIsZeroValue ==
  /\ zeroValues(0) = MERKLE_ZERO_VALUE
  /\ \A level \in 1..Depth :
       zeroValues(level) = hashLeftRight(zeroValues(level - 1), zeroValues(level - 1))
  /\ \A t \in Trees, level \in 0..Depth :
       \A index \in 0..(2 ^ (Depth - level) - 1) :
         <<t, level, index>> \notin DOMAIN nodes
           => getNode(t, level, index) = ReferenceNode(<<>>, level, 0)
  /\ \A t \in Trees :
       (\A k \in DOMAIN nodes : k[1] # t)
         => getRoot(t) = ReferenceNode(<<>>, Depth, 0)

\* tree 0 holds its first leaf and not its second, tree 1 holds nothing
C18_Witness ==
  /\ <<0, 0, 0>> \in DOMAIN nodes
  /\ <<0, 0, 1>> \notin DOMAIN nodes
  /\ <<0, 1, 1>> \notin DOMAIN nodes
  /\ \A k \in DOMAIN nodes : k[1] # 1
  /\ NoRunExecuting

\* C19: the nullifier stored by scanLeaves for the leaf at position p is
\* Note.getNullifier(nullifyingKey, p) with nullifyingKey the value of
\* getNullifyingKey(), the Poseidon hash of the viewing private key.
C19_StoredNullifierUsesNullifyingKey ==
  \A k \in DOMAIN walletDB :
    walletDB[k].nullifier = getNullifier(getNullifyingKey, k[3])

\* the summed value of the UTXOs of every tree whose txid is not excluded
RECURSIVE UnexcludedValue(_, _)
UnexcludedValue(treeBalances, excluded) ==
  IF treeBalances = <<>> THEN 0
  ELSE calculateTotalSpend(SelectSeq(Head(treeBalances).utxos,
                                     LAMBDA utxo : ~Includes(excluded, utxo.txid)))
       + UnexcludedValue(Tail(treeBalances), excluded)

\* the summed value of the UTXOs spent by a list of groups
RECURSIVE GroupsSpend(_)
GroupsSpend(groups) ==
  IF groups = <<>> THEN 0
  ELSE calculateTotalSpend(Head(groups).utxos) + GroupsSpend(Tail(groups))

\* C20: a call of createSpendingSolutionGroupsForOutput raises the
\* consolidation error exactly when the UTXOs that are not excluded, over all
\* trees, sum to less than output.value; otherwise it raises nothing and the
\* UTXOs of the groups it returns cover the output.
C20_ConsolidationErrorIffShort ==
  \A c \in DOMAIN planCalls :
    LET call == planCalls[c]
        available == UnexcludedValue(treeSortedBalances, call.excludedBefore)
    IN /\ (call.raised = "consolidate balances") <=> (available < call.output.value)
       /\ available >= call.output.value =>
            /\ call.raised = "none"
            /\ GroupsSpend(call.spendingSolutionGroups) >= call.output.value

\* the txids of the UTXOs of the groups of a list, in the order they were pushed
RECURSIVE GroupTxids(_)
GroupTxids(groups) ==
  IF groups = <<>> THEN <<>>
  ELSE [i \in DOMAIN Head(groups).utxos |-> Head(groups).utxos[i].txid]
         \o GroupTxids(Tail(groups))

\* excludedUTXOIDs as it was when group g of call c was selected
ExcludedAtSelection(c, g) ==
  planCalls[c].excludedBefore
    \o GroupTxids(SubSeq(planCalls[c].spendingSolutionGroups, 1, g - 1))

\* the groups of the calls of the request, by call and place
GroupSlots ==
  UNION {{<<c, g>> : g \in DOMAIN planCalls[c].spendingSolutionGroups} :
           c \in DOMAIN planCalls}

GroupAt(slot) == planCalls[slot[1]].spendingSolutionGroups[slot[2]]

\* C21: over the calls of one request, which share excludedUTXOIDs, no UTXO is
\* in two groups (the groups have no txid in common), and no group holds a
\* UTXO whose txid was in the excluded list when its batch was selected; each
\* call starts from the list the call before it left.
C21_NoUTXOSpentTwice ==
  /\ \A s1 \in GroupSlots, s2 \in GroupSlots :
       s1 # s2 =>
         \A i \in DOMAIN GroupAt(s1).utxos, j \in DOMAIN GroupAt(s2).utxos :
           GroupAt(s1).utxos[i].txid # GroupAt(s2).utxos[j].txid
  /\ \A s \in GroupSlots :
       \A i \in DOMAIN GroupAt(s).utxos :
         ~Includes(ExcludedAtSelection(s[1], s[2]), GroupAt(s).utxos[i].txid)
  /\ \A c \in DOMAIN planCalls :
       c > 1 => planCalls[c].excludedBefore =
                  ExcludedAtSelection(c - 1,
                    Len(planCalls[c - 1].spendingSolutionGroups) + 1)

\* two calls have each returned groups, the first of them more than one, out of
\* a tree whose UTXOs share txids
C21_Witness ==
  /\ Len(planCalls) = 2
  /\ Len(planCalls[1].spendingSolutionGroups) > 1
  /\ Len(planCalls[2].spendingSolutionGroups) > 0
  /\ planCalls[2].raised = "none"
  /\ \E i, j \in DOMAIN treeSortedBalances[2].utxos :
       i # j /\ treeSortedBalances[2].utxos[i].txid = treeSortedBalances[2].utxos[j].txid

(***************************************************************************)
(* Claims about nextNullifierTarget (checked under SpecNullifierTarget)    *)
(***************************************************************************)
\* the valid nullifier counts above n
CountsAbove(n) == {v \in {1, 2, 8} : v > n}

\* C22: nextNullifierTarget(n) is the smallest valid nullifier count above n
\* (1 for 0, 2 for 1, 8 for 2 to 7) and no target from 8 on, and it is
\* monotone: for n1 <= n2, target(n2) is absent or target(n1) <= target(n2).
C22_NextNullifierTarget ==
  /\ \A c \in DOMAIN targetCalls :
       LET n == targetCalls[c].utxoCount
           target == targetCalls[c].target
       IN /\ CountsAbove(n) # {} =>
               target \in CountsAbove(n) /\ \A v \in CountsAbove(n) : target <= v
          /\ CountsAbove(n) = {} => target = NoTarget
          /\ n = 0 => target = 1
          /\ n = 1 => target = 2
          /\ n \in 2..7 => target = 8
          /\ n >= 8 => target = NoTarget
  /\ \A c1 \in DOMAIN targetCalls, c2 \in DOMAIN targetCalls :
       targetCalls[c1].utxoCount <= targetCalls[c2].utxoCount =>
         \/ targetCalls[c2].target = NoTarget
         \/ /\ targetCalls[c1].target # NoTarget
            /\ targetCalls[c1].target <= targetCalls[c2].target

\* a count between two valid counts was asked about, then one with no target
C22_Witness ==
  /\ Len(targetCalls) = 2
  /\ targetCalls[1].utxoCount \in 2..7 /\ targetCalls[1].target = 8
  /\ targetCalls[2].utxoCount >= 8 /\ targetCalls[2].target = NoTarget

(***************************************************************************)
(* Claims about shouldAddMoreUTXOsForSolutionBatch (under SpecShouldAdd)   *)
(***************************************************************************)
\* C23: with k UTXOs selected out of N, their sum s and the amount r required,
\* shouldAddMoreUTXOsForSolutionBatch answers: for s >= r, continue iff k is
\* not a valid count; for s < r, continue when the next valid count above k
\* exists and is at most N, and stop when it does not exist or exceeds N,
\* whether or not k is a valid count.
C23_ShouldAddMoreUTXOs ==
  \A c \in DOMAIN shouldAddCalls :
    LET call == shouldAddCalls[c]
        k == Len(call.spendingUTXOs)
        N == Len(call.allUTXOs)
        s == calculateTotalSpend(call.spendingUTXOs)
        r == call.totalRequired
        above == {v \in {1, 2, 8} : v > k}
        reachable == \E v \in above : (\A w \in above : v <= w) /\ v <= N
    IN /\ s >= r => (call.result <=> k \notin {1, 2, 8})
       /\ (s < r /\ reachable) => call.result = TRUE
       /\ (s < r /\ ~reachable) => call.result = FALSE

(***************************************************************************)
(* Further claims about the Merkle tree (checked under SpecTree)           *)
(***************************************************************************)
\* every persisted node, leaf or internal, is in the store after the step with
\* the value it had
NodesFrozen ==
  \A k \in DOMAIN nodes : k \in DOMAIN nodes' /\ nodes'[k] = nodes[k]

\* C24: a Merkle node is written once and never updated: once a value is
\* persisted at (tree, level, index), no later step changes the value at that
\* key, for leaves and for internal nodes up to the root.
C24_NodesWrittenOnce == [][NodesFrozen]_vars

(***************************************************************************)
(* Claims about Note (checked under SpecNote)                              *)
(***************************************************************************)
\* C25: for a note of value below 2^128, decrypting its encryption under the
\* same shared key, whether used directly or derived by the receiver from its
\* side of the exchange, gives a note with the same masterPublicKey, token,
\* random and value, and the empty sentinel as viewing public key.
C25_DecryptInvertsEncrypt ==
  \A c \in DOMAIN noteCalls :
    LET call == noteCalls[c]
    IN (Len(call.note.value) <= 32 /\ call.readerKey = call.key) =>
         /\ call.decrypted # DecryptThrows
         /\ call.decrypted.masterPublicKey = call.note.masterPublicKey
         /\ call.decrypted.token = call.note.token
         /\ call.decrypted.random = call.note.random
         /\ call.decrypted.value = call.note.value
         /\ call.decrypted.viewingPublicKey = <<>>

\* a note of value 2^128 - 1, with a random that starts with zero digits, sent
\* by one party and decrypted by another
C25_Witness ==
  \E c \in DOMAIN noteCalls :
    /\ noteCalls[c].note.value = Fs(32)
    /\ noteCalls[c].note.random = Zeros(2) \o Fs(30)
    /\ Cardinality(noteCalls[c].key) = 2
    /\ noteCalls[c].readerKey = noteCalls[c].key
    /\ noteCalls[c].decrypted # DecryptThrows
    /\ noteCalls[c].decrypted.value = Fs(32)

(***************************************************************************)
(* Further claims about the solution planner (checked under SpecPlan)      *)
(***************************************************************************)
\* the UTXOs of the tree balance at this place whose txid is not excluded
NonExcluded(tree) ==
  SelectSeq(treeSortedBalances[tree].utxos,
            LAMBDA utxo : ~Includes(excludedUTXOIDs, utxo.txid))

\* how many times x occurs in a list
Occurrences(list, x) == Cardinality({i \in DOMAIN list : list[i] = x})

\* batch is made of the largest UTXOs of all, largest first
LargestFirst(batch, all) ==
  /\ \A i \in DOMAIN batch : i > 1 => batch[i - 1].value >= batch[i].value
  /\ \A i \in DOMAIN batch : Occurrences(batch, batch[i]) <= Occurrences(all, batch[i])
  /\ \A j \in DOMAIN all :
       Occurrences(all, all[j]) > Occurrences(batch, all[j])
         => all[j].value <= batch[Len(batch)].value

\* the counts of {1, 2, 8} that do not exceed n
CountsUpTo(n) == {v \in {1, 2, 8} : v <= n}

\* C26: a batch returned by findNextSolutionBatch is the k largest non-excluded
\* UTXOs of the tree, largest first, for k the smallest count of {1, 2, 8} not
\* above their number N whose largest UTXOs reach the amount required, or the
\* largest count not above N when none does: 2 only if the largest UTXO is
\* not enough, 8 only if the two largest are not.
C26_BatchIsSmallestValidPrefix ==
  \A tree \in DOMAIN treeSortedBalances, totalRequired \in 0..MaxOutput :
    LET found == NextBatch(tree, totalRequired)
        batch == found.utxos
        k == Len(batch)
        N == Len(NonExcluded(tree))
    IN found.kind = "batch" =>
         /\ k \in CountsUpTo(N)
         /\ LargestFirst(batch, NonExcluded(tree))
         /\ \A j \in CountsUpTo(N) :
              j < k => calculateTotalSpend(SubSeq(batch, 1, j)) < totalRequired
         /\ \/ calculateTotalSpend(batch) >= totalRequired
            \/ \A j \in CountsUpTo(N) : j <= k
         /\ k = 2 => batch[1].value < totalRequired
         /\ k = 8 => batch[1].value + batch[2].value < totalRequired

\* after a call has excluded UTXOs, the next batch of the second tree would be
\* of 8 for one amount and of 2 for a smaller one, and UTXOs are left over
C26_Witness ==
  /\ excludedUTXOIDs # <<>>
  /\ \E r1 \in 0..MaxOutput, r2 \in 0..MaxOutput :
       /\ NextBatch(2, r1).kind = "batch" /\ Len(NextBatch(2, r1).utxos) = 8
       /\ NextBatch(2, r2).kind = "batch" /\ Len(NextBatch(2, r2).utxos) = 2
       /\ calculateTotalSpend(NextBatch(2, r2).utxos) >= r2
  /\ Len(NonExcluded(2)) > 8

(***************************************************************************)
(* Further claims about insertLeaves (checked under SpecTree)              *)
(***************************************************************************)
\* the persisted nodes of a tree
TreeNodes(tree) == [k \in {x \in DOMAIN nodes : x[1] = tree} |-> nodes[k]]

\* the step in which the db.batch of an insert into the tree lands: the whole
\* write cache of the tree, and nothing else, goes to the store
BatchLands(tree) ==
  /\ \E p \in Calls : ins[p][tree].st = "staged" /\ ins'[p][tree].st = "written"
  /\ nodes' = Merge(nodes,
                    [k \in {<<tree, x[1], x[2]>> : x \in DOMAIN writeCache[tree]}
                       |-> writeCache[tree][<<k[2], k[3]>>]])

\* one step, seen from the inserts into a tree
InsertCommitsOnce ==
  \A tree \in Trees :
    /\ (TreeNodes(tree))' # TreeNodes(tree) => BatchLands(tree)
    /\ \A p \in Calls :
         /\ (ins[p][tree].st # "staged" /\ ins'[p][tree].st = "staged") =>
              /\ (TreeNodes(tree))' = TreeNodes(tree)
              /\ (getTreeLength(tree))' = getTreeLength(tree)
              /\ \A j \in 1..hist[ins'[p][tree].by].n :
                   <<0, hist[ins'[p][tree].by].start + j - 1>>
                     \in DOMAIN writeCache'[tree]
              /\ <<Depth, 0>> \in DOMAIN writeCache'[tree]
         /\ (ins[p][tree].st = "staged" /\ ins'[p][tree].st = "staged") =>
              /\ (TreeNodes(tree))' = TreeNodes(tree)
              /\ (getTreeLength(tree))' = getTreeLength(tree)
              /\ writeCache'[tree] = writeCache[tree]
         /\ (ins[p][tree].st = "written" /\ ins'[p][tree].st = "done") =>
              /\ treeLengthCache'[tree] =
                   hist[ins[p][tree].by].start + hist[ins[p][tree].by].n
              /\ writeCache'[tree] = EmptyMap

\* C27: insertLeaves stages the new leaves and their ancestors in the write
\* cache of the tree and commits them with one db.batch: until that batch lands
\* the store holds the nodes it held before the insert and getTreeLength
\* returns the old length; once the insert completes the length cache is
\* startIndex plus the number of leaves and the write cache of the tree is
\* empty.
C27_InsertCommitsInOneBatch == [][InsertCommitsOnce]_vars

\* an insert of two leaves behind an earlier leaf has completed: the length
\* cache is 3 and the write cache is empty
C27_Witness ==
  \E p \in Calls, tree \in Trees :
    /\ ins[p][tree].st = "done"
    /\ hist[ins[p][tree].by].start = 1
    /\ hist[ins[p][tree].by].n = 2
    /\ treeLengthCache[tree] = 3
    /\ writeCache[tree] = EmptyMap
    /\ <<tree, 0, 2>> \in DOMAIN nodes

(***************************************************************************)
(* Further claims about Wallet.scan (checked under SpecWallet)             *)
(***************************************************************************)
\* the scans that have completed scanLeaves for a tree and have gone on to the
\* next tree without having finished
ScansPastATree ==
  {s \in Scans : scan[s].pc \in {"fetch", "scanLeaves", "thrown"} /\ scan[s].tree > 0}

\* C28: within one scan(chain), once scanLeaves has completed for tree t the new
\* treeScannedHeights[t] is in the store before the scan of tree t + 1 begins:
\* while a scan works on a later tree, the stored scanned height of every tree
\* it has completed is the one it recorded.
C28_ProgressPersistedPerTree ==
  \A s \in ScansPastATree :
    \A t \in 1..scan[s].tree :
      /\ t <= Len(walletDetailsDB[scan[s].chainID])
      /\ walletDetailsDB[scan[s].chainID][t] = scan[s].treeScannedHeights[t]

\* how many 'scanned' events carry the chain id
EventsOf(chainID) == Cardinality({i \in DOMAIN scanned : scanned[i] = chainID})

\* the scans of the chain that have run to completion
Completed(chainID) == {s \in Scans : scan[s].chainID = chainID /\ scan[s].pc = "done"}

\* one event per completed scan, none for the others; a scan about to emit has
\* its details in the store and holds the lock; a scan(chain) called by a
\* listener of the chain's own event has returned as locked
EmitInOrder ==
  /\ \A c \in Chains : EventsOf(c) = Cardinality(Completed(c))
  /\ \A s \in Scans :
       scan[s].pc = "emit" =>
         /\ walletDetailsDB[scan[s].chainID] = scan[s].treeScannedHeights
         /\ scanLockPerChain[scan[s].chainID]
  /\ \A s \in Scans :
       (scan[s].listenerOf # 0
          /\ scan[s].chainID = scan[scan[s].listenerOf].chainID)
         => scan[s].pc = "locked"

\* an event is emitted only in the step that completes a scan that was about
\* to emit, and that step releases the lock of its chain
EmitCompletesScan ==
  scanned' # scanned =>
    \E s \in Scans :
      /\ scan[s].pc = "emit" /\ scan'[s].pc = "done"
      /\ scanned' = Append(scanned, scan[s].chainID)
      /\ ~scanLockPerChain'[scan[s].chainID]

\* C29: every scan(chain) that runs to completion emits exactly one 'scanned'
\* event with its chain id, after the wallet details are persisted and before
\* the lock of the chain is released, so that a scan(chain) called from a
\* listener returns as locked; a scan that returned as locked emits nothing.
C29_ScannedEventOrder == []EmitInOrder /\ [][EmitCompletesScan]_vars

\* a scan has completed and the scan its listener started on the same chain
\* has returned as locked, with one event emitted for the chain
C29_Witness ==
  \E s \in Scans :
    /\ scan[s].listenerOf # 0
    /\ scan[s].chainID = scan[scan[s].listenerOf].chainID
    /\ scan[s].pc = "locked"
    /\ scan[scan[s].listenerOf].pc = "done"
    /\ EventsOf(scan[s].chainID) = 1
    /\ walletDetailsDB[scan[s].chainID] # <<>>

\* the TXO that the TXOs call of the step returned for the record at key k
ReturnedTXO(k) ==
  {txo \in balancesResult'.txos : txo.tree = k[2] /\ txo.position = k[3]}

\* a TXOs call looks up exactly the records whose spendtxid is unset; a record
\* whose nullifier is found is stored and returned with the txid found, a
\* record already marked spent is returned as stored, and any other record is
\* left as it was
TXOsMarksSpent ==
  balancesResult'.chainID \in Chains =>
    LET chainID == balancesResult'.chainID
        keys == StreamNamespace(chainID, latestTree(chainID))
    IN /\ balancesResult'.queried = {k \in keys : walletDB[k].spendtxid = NoTxid}
       /\ \A k \in keys :
            LET nullifierTX == getNullified(chainID, walletDB[k].nullifier)
                spendtxid == IF walletDB[k].spendtxid # NoTxid
                             THEN walletDB[k].spendtxid
                             ELSE nullifierTX
            IN /\ k \in DOMAIN walletDB'
               /\ walletDB'[k] = [walletDB[k] EXCEPT !.spendtxid = spendtxid]
               /\ Cardinality(ReturnedTXO(k)) = 1
               /\ \A txo \in ReturnedTXO(k) : txo.spendtxid = spendtxid
       /\ Cardinality(balancesResult'.txos) = Cardinality(keys)

\* no step removes a stored record
RecordsNeverDeleted == DOMAIN walletDB \subseteq DOMAIN walletDB'

\* C30: TXOs(chain) queries the nullifier index only for the records whose
\* spendtxid is unset; when getNullified returns a txid it stores it as the
\* spendtxid of the record and returns the TXO as spent; a record already
\* marked spent is returned with its stored spendtxid, without a query; no
\* record is ever deleted.
C30_TXOsMarksSpent == [][TXOsMarksSpent /\ RecordsNeverDeleted]_vars

\* a TXOs call has returned, without a query, a TXO with the spendtxid that an
\* earlier TXOs call found by a query and stored in its record
C30_Witness ==
  /\ balancesResult.chainID \in Chains
  /\ \E k \in StreamNamespace(balancesResult.chainID,
                              latestTree(balancesResult.chainID)) :
       /\ k \notin balancesResult.queried
       /\ walletDB[k].spendtxid = getNullified(k[1], walletDB[k].nullifier)
       /\ walletDB[k].spendtxid # NoTxid
       /\ \E txo \in balancesResult.txos :
            /\ txo.tree = k[2] /\ txo.position = k[3]
            /\ txo.spendtxid = walletDB[k].spendtxid

RECURSIVE EntryBalances(_)
\* the sum of the balances of the entries of a sparse array of tree balances
EntryBalances(entries) ==
  IF DOMAIN entries = {} THEN 0
  ELSE LET tree == CHOOSE t \in DOMAIN entries : TRUE
       IN entries[tree].balance
            + EntryBalances([t \in DOMAIN entries \ {tree} |-> entries[t]])

\* C31: balancesByTree(chain) partitions balances(chain): for every token each
\* unspent UTXO is in exactly one entry, the one at index utxo.tree; the balance
\* of an entry is the sum of the values of its UTXOs; the balances of the
\* entries of a token sum to the balance of the token.
C31_BalancesByTreePartition ==
  balancesResult.chainID \in Chains =>
    /\ DOMAIN balancesResult.balancesByTree = DOMAIN balancesResult.balances
    /\ \A token \in DOMAIN balancesResult.balances :
         LET entries == balancesResult.balancesByTree[token]
             tokenBalance == balancesResult.balances[token]
         IN /\ \A utxo \in tokenBalance.utxos :
                 {tree \in DOMAIN entries : utxo \in entries[tree].utxos}
                   = {utxo.tree}
            /\ \A tree \in DOMAIN entries :
                 /\ entries[tree].utxos \subseteq tokenBalance.utxos
                 /\ entries[tree].balance = SumValues(entries[tree].utxos)
            /\ EntryBalances(entries) = tokenBalance.balance

\* balancesByTree has returned an entry of two UTXOs of one token in one tree
C31_Witness ==
  /\ balancesResult.chainID \in Chains
  /\ \E token \in DOMAIN balancesResult.balancesByTree :
       \E tree \in DOMAIN balancesResult.balancesByTree[token] :
         /\ Cardinality(balancesResult.balancesByTree[token][tree].utxos) = 2
         /\ balancesResult.balancesByTree[token][tree].balance > 1

(***************************************************************************)
(* Claims about the arguments of the planner (checked under SpecPlan)      *)
(***************************************************************************)
\* remainingOutputs as call number c left it
RemainingAfter(c) ==
  IF c = Len(planCalls) THEN remainingOutputs ELSE planCalls[c + 1].before

\* C32: when createSpendingSolutionGroupsForOutput returns for the output at
\* the front of remainingOutputs, whatever the value of the output and the
\* number of groups, remainingOutputs is its entry value without that output:
\* the other outputs in their order, and no remainder note.
C32_OutputRemovedFromRemaining ==
  \A c \in DOMAIN planCalls :
    planCalls[c].raised = "none" => RemainingAfter(c) = Tail(planCalls[c].before)

\* the UTXOs of sequence utxos are UTXOs of the tree balance
DrawnFrom(utxos, treeBalance) ==
  \A i \in DOMAIN utxos :
    \E j \in DOMAIN treeBalance.utxos : treeBalance.utxos[j] = utxos[i]

\* C33: every group emitted by createSpendingSolutionGroupsForOutput draws all
\* its UTXOs from one tree, the tree balance at index spendingTree of the input
\* list, carries exactly one output note, addressed like the requested output,
\* and has withdrawValue 0.
C33_GroupWithinOneTree ==
  \A c \in DOMAIN planCalls :
    \A g \in DOMAIN planCalls[c].spendingSolutionGroups :
      LET group == planCalls[c].spendingSolutionGroups[g]
      IN /\ group.spendingTree \in 0..(Len(treeSortedBalances) - 1)
         /\ group.utxos # <<>>
         /\ DrawnFrom(group.utxos, treeSortedBalances[group.spendingTree + 1])
         /\ Len(group.outputs) = 1
         /\ group.outputs[1].address = planCalls[c].output.address
         /\ group.withdrawValue = 0

\* the call for the output of the second receiver has emitted a group of UTXOs
\* of the first tree and a group of several UTXOs of the second tree
C33_Witness ==
  \E c \in DOMAIN planCalls :
    /\ planCalls[c].output.address = 2
    /\ \E g, h \in DOMAIN planCalls[c].spendingSolutionGroups :
         /\ planCalls[c].spendingSolutionGroups[g].spendingTree = 0
         /\ planCalls[c].spendingSolutionGroups[h].spendingTree = 1
         /\ Len(planCalls[c].spendingSolutionGroups[h].utxos) > 1

(***************************************************************************)
(* Claims about findWalletHighestIndex (checked under SpecHighestIndex)    *)
(***************************************************************************)
\* the indices at which a scanIndex call of the findWalletHighestIndex call
\* reported an asset, on either chain
IndicesWithAsset(call) ==
  {call.scanned[i][1] : i \in {j \in DOMAIN call.scanned :
      Includes(scanIndex(call.scanned[j][1], call.scanned[j][2], call.commitments),
               TRUE)}}

\* the highest index examined by the call
LastExamined(call) == call.scanned[Len(call.scanned)][1]

\* indices 0, 1, 2, ... were examined in turn, each on the primary and on the
\* change chain
ExaminedInTurn(call) ==
  /\ Len(call.scanned) = 2 * (LastExamined(call) + 1)
  /\ \A index \in 0..LastExamined(call) :
       /\ call.scanned[2 * index + 1] = <<index, TRUE>>
       /\ call.scanned[2 * index + 2] = <<index, FALSE>>

\* the copy returned: primaryHeight the highest examined index with an asset,
\* never below the one passed in, the other fields and the argument as given
ReturnsHighestFound(call) ==
  /\ call.returned.primaryHeight =
       Max(IndicesWithAsset(call) \cup {call.walletDetails.primaryHeight})
  /\ call.returned.treeScannedHeights = call.walletDetails.treeScannedHeights
  /\ call.returned.changeHeight = call.walletDetails.changeHeight
  /\ call.walletDetailsAfter = call.walletDetails

\* C34: findWalletHighestIndex examines indices 0, 1, 2, ... on the primary and
\* the change chain, stops once 20 indices beyond the highest index found so
\* far have been examined, and returns a copy of walletDetails whose
\* primaryHeight is the highest examined index with an asset, never below the
\* primaryHeight passed in, with treeScannedHeights and changeHeight as given
\* and the argument unmodified.
C34_FindWalletHighestIndex ==
  \A c \in DOMAIN highestIndexCalls :
    LET call == highestIndexCalls[c]
    IN /\ ExaminedInTurn(call)
       /\ LastExamined(call) = call.returned.primaryHeight + 20
       /\ ReturnsHighestFound(call)

(***************************************************************************)
(* Claims about whose leaves scanLeaves records                            *)
(* (checked under SpecScanLeavesAddressed)                                 *)
(***************************************************************************)
\* the store as call number c of scanLeaves left it
StoreAfter(c) ==
  IF c < Len(scanLeavesCalls) THEN scanLeavesCalls[c + 1].before ELSE walletDB

\* C35: scanLeaves persists a TXO record only for a leaf that belongs to this
\* wallet: the note of the leaf names the master public key of the wallet (the
\* npk of a preimage is made with it); a leaf that decrypts under the viewing
\* key of the wallet but names another master public key is not recorded.
C35_OnlyOwnLeavesRecorded ==
  \A c \in DOMAIN scanLeavesCalls :
    LET call == scanLeavesCalls[c]
    IN \A k \in Written(call.before, StoreAfter(c)) :
         /\ k[1] = call.chainID /\ k[2] = call.tree
         /\ call.leaves[k[3] + 1].to = "wallet"
         /\ call.leaves[k[3] + 1].mpk = "wallet"

(***************************************************************************)
(* Claims about the locks (checked under SpecTree and SpecWallet)          *)
(***************************************************************************)
\* no updateTrees invocation is between taking the lock and its return or throw
NoUpdateTreesExecuting == \A p \in Calls : pc[p] \notin {"lengths", "updates"}

\* C36: queueLock is false whenever no updateTrees invocation is executing:
\* every run that set the lock ends with the lock cleared, also when a queued
\* batch is empty or insertLeaves fails, so that later queueLeaves calls can
\* still update the trees.
C36_QueueLockReleased == NoUpdateTreesExecuting => ~queueLock

\* the scans of the chain that are between taking the lock and return or throw
Executing(chainID) ==
  {s \in Scans : scan[s].chainID = chainID
                  /\ scan[s].pc \in {"details", "fetch", "scanLeaves", "put", "emit"}}

\* C37: scanLockPerChain[chain] is false whenever no scan(chain) invocation is
\* executing: every scan that took the lock ends with the lock released, also
\* a scan that starts from a stored scanned height of 1 or more or during which
\* a read fails, so that a later scan(chain) proceeds.
C37_ScanLockReleased ==
  \A chainID \in Chains : Executing(chainID) = {} => ~scanLockPerChain[chainID]

(***************************************************************************)
(* Claims about the outcome of findNextSolutionBatch (under SpecPlan)      *)
(***************************************************************************)
\* the amounts a batch of the tree is asked for: 0, the values an output can
\* have, and more than all the UTXOs of the tree hold
Amounts(tree) ==
  0..MaxOutput \cup {calculateTotalSpend(treeSortedBalances[tree].utxos) + 1}

\* C38: findNextSolutionBatch never raises 'Invalid nullifier count' and never
\* reads past the end of the filtered UTXOs: for every tree balance, every
\* amount required (0 and amounts above the balance of the tree included) and
\* every excluded list, the loop ends at a count of {1, 2, 8} that is at most
\* the number of non-excluded UTXOs.
C38_BatchCountAlwaysValid ==
  \A tree \in DOMAIN treeSortedBalances : \A totalRequired \in Amounts(tree) :
    LET found == NextBatch(tree, totalRequired)
        N == Len(NonExcluded(tree))
    IN /\ found.kind \in {"undefined", "batch"}
       /\ (found.kind = "undefined") = (N = 0)
       /\ found.kind = "batch" =>
            /\ Len(found.utxos) \in {1, 2, 8}
            /\ Len(found.utxos) <= N
            /\ ~Includes(found.utxos, UndefTXO)

\* after a call has excluded UTXOs, a tree is left with between 3 and 7
\* UTXOs worth less than the amount asked for, and the batch is of 2
C38_Witness ==
  /\ excludedUTXOIDs # <<>>
  /\ \E tree \in DOMAIN treeSortedBalances : \E totalRequired \in Amounts(tree) :
       /\ Len(NonExcluded(tree)) \in 3..7
       /\ calculateTotalSpend(NonExcluded(tree)) < totalRequired
       /\ calculateTotalSpend(NonExcluded(tree)) > 0
       /\ NextBatch(tree, totalRequired).kind = "batch"
       /\ Len(NextBatch(tree, totalRequired).utxos) = 2

(***************************************************************************)
(* Claims about the values of the groups (checked under SpecPlan)          *)
(***************************************************************************)
\* C39: in every group emitted by createSpendingSolutionGroupsForOutput the
\* value of the output note is not negative and not more than the summed value
\* of the UTXOs of the group.
C39_OutputWithinInputs ==
  \A c \in DOMAIN planCalls :
    \A g \in DOMAIN planCalls[c].spendingSolutionGroups :
      LET group == planCalls[c].spendingSolutionGroups[g]
      IN \A o \in DOMAIN group.outputs :
           /\ group.outputs[o].value >= 0
           /\ group.outputs[o].value <= calculateTotalSpend(group.utxos)

\* a call has emitted a group whose UTXOs hold less than the output required,
\* with an output of all they hold, and a call has emitted a group whose UTXOs
\* hold more than its output
C39_Witness ==
  /\ \E c \in DOMAIN planCalls :
       \E g \in DOMAIN planCalls[c].spendingSolutionGroups :
         LET group == planCalls[c].spendingSolutionGroups[g]
         IN /\ calculateTotalSpend(group.utxos) < planCalls[c].output.value
            /\ group.outputs[1].value = calculateTotalSpend(group.utxos)
            /\ group.outputs[1].value > 0
  /\ \E c \in DOMAIN planCalls :
       \E g \in DOMAIN planCalls[c].spendingSolutionGroups :
         LET group == planCalls[c].spendingSolutionGroups[g]
         IN calculateTotalSpend(group.utxos) > group.outputs[1].value

\* excludedUTXOIDs as call c left it
ExcludedAfter(c) ==
  IF c = Len(planCalls) THEN excludedUTXOIDs ELSE planCalls[c + 1].excludedBefore

\* every call, returned or raised, has left the list it was given followed by
\* the txids of the batches it selected, in the order it selected them
ExcludedAppendedTo ==
  \A c \in DOMAIN planCalls :
    ExcludedAfter(c) =
      planCalls[c].excludedBefore \o GroupTxids(planCalls[c].spendingSolutionGroups)

\* C40: excludedUTXOIDs is only ever appended to: when
\* createSpendingSolutionGroupsForOutput returns or raises, the list is its
\* entry value followed by the txids of the UTXOs of every batch selected during
\* the call, in selection order, the batches selected before a consolidation
\* error included; and no call changes the tree balances it is given.
C40_ExcludedOnlyAppended ==
  /\ []ExcludedAppendedTo
  /\ [][treeSortedBalances' = treeSortedBalances]_vars

\* a call given a list that was not empty, and trees whose UTXOs are not in
\* order of size, has selected two batches and then raised the consolidation
\* error
C40_Witness ==
  /\ Len(planCalls) = 2
  /\ planCalls[2].excludedBefore # <<>>
  /\ planCalls[2].raised = "consolidate balances"
  /\ Len(planCalls[2].spendingSolutionGroups) > 1
  /\ treeSortedBalances[2].utxos # sortUTXOsBySize(treeSortedBalances[2].utxos)
====
